---- MODULE Spec2Model ----
(***************************************************************************)
(* A model of codecrafters-redis-rust:                                     *)
(*   - the Store (src/src/database.rs): 16 namespaces behind one tokio     *)
(*     RwLock, db_get / db_set / db_list_keys / db_load;                   *)
(*   - the frame codec (src/src/client.rs): parse_resp, write_resp and     *)
(*     the read() loop over the 512-byte receive buffer.                   *)
(*   - the snapshot reader (src/src/persistence.rs): RdbReader::read.      *)
(* Spec is the Store run by concurrent tasks; SpecCodec is one connection  *)
(* decoding the bytes of one encoded message; SpecRdb is one db_load of a  *)
(* snapshot file, RdbReader::read taken one opcode at a time.              *)
(***************************************************************************)
EXTENDS Integers, Sequences, FiniteSets, TLC

VARIABLES
    \* ---- Store (database.rs) ----
    cache,        \* CACHE: db id -> (key -> CacheEntry)
    now,          \* SystemTime::now()
    lockWriter,   \* the task holding CACHE.write(), 0 when none
    lockReaders,  \* the tasks holding CACHE.read()
    pc,           \* each task's position inside its current Store call
    local,        \* each task's arguments and locals of its current call
    last,         \* history: the latest Store call that returned or changed CACHE
    \* ---- one connection (client.rs) ----
    msg,          \* the value whose encoding the peer sends
    stream,       \* bytes the peer has sent that the socket has not delivered yet
    read_buffer,  \* RedisClientConnection::read_buffer
    write_index,  \* RedisClientConnection::write_index
    parsed,       \* the result of the latest parse_resp call made by read()
    cstate,       \* the position of the connection inside read()
    \* ---- one RdbReader::read call (persistence.rs) ----
    file,         \* the snapshot file: whether it exists, and its bytes
    rpos,         \* the reader's position: bytes of the file consumed so far
    rstate,       \* the position of the call inside RdbReader::read
    rdata,        \* current_database, metadata, databases and the error of the call
    decoded,      \* the result of one length or string read made on its own
    \* ---- the server (main.rs, client.rs) ----
    conn,         \* each connection task: its status and its selected_db
    listening     \* main is in its accept loop

storeVars == <<cache, now, lockWriter, lockReaders, pc, local, last>>
codecVars == <<msg, stream, read_buffer, write_index, parsed, cstate>>
rdbVars == <<file, rpos, rstate, rdata>>
srvVars == <<conn, listening>>
vars == <<cache, now, lockWriter, lockReaders, pc, local, last,
          msg, stream, read_buffer, write_index, parsed, cstate,
          file, rpos, rstate, rdata, decoded, conn, listening>>

----------------------------------------------------------------------------
(* Bounds of the model *)

NumTasks == 2      \* concurrent tasks calling the Store
NumKeys == 1       \* distinct key strings
NumVals == 2       \* distinct value strings
MaxTime == 1       \* the clock runs 0..MaxTime
MaxTtl == 1        \* timeouts given to db_set are 0..MaxTtl

(* Program constants *)

NumDbs == 16       \* for i in 0..16

Tasks == 1..NumTasks
Keys == 1..NumKeys
Vals == 1..NumVals
DbIds == 0..(NumDbs - 1)

\* Database ids the callers pass: the first and the last namespace and the
\* first id that is not a namespace.
InputDbs == {0, NumDbs - 1, NumDbs}

\* Option<T>: None is {}, Some(x) is {x}.
None == {}
Some(x) == {x}

\* Option<Duration> values passed to db_set.
Timeouts == {None} \cup {Some(t) : t \in 0..MaxTtl}

\* DataType::String(value)
DataString(v) == <<"String", v>>

\* Database::new()
EmptyDb == [k \in {} |-> 0]

\* HashMap::insert / HashMap::remove on a map held as a function.
MapInsert(m, k, v) == [x \in (DOMAIN m) \cup {k} |-> IF x = k THEN v ELSE m[x]]
MapRemove(m, k) == [x \in (DOMAIN m) \ {k} |-> m[x]]

\* The initial CACHE: 16 empty databases.
InitCache == [i \in DbIds |-> EmptyDb]

----------------------------------------------------------------------------
(* RdbReader::read as db_load sees it: an error, or the databases and the  *)
(* expirations of the snapshot file.                                       *)

RdbErr == [ok |-> FALSE, databases |-> EmptyDb, expirations |-> EmptyDb]

RdbOk(dbs, exps) == [ok |-> TRUE, databases |-> dbs, expirations |-> exps]

Snapshots ==
    { RdbOk(EmptyDb, EmptyDb),
      RdbOk(MapInsert(EmptyDb, 0, MapInsert(EmptyDb, 1, DataString(1))), EmptyDb),
      RdbOk(MapInsert(MapInsert(EmptyDb, 0, MapInsert(EmptyDb, 1, DataString(2))),
                      NumDbs - 1, MapInsert(EmptyDb, 1, DataString(1))),
            MapInsert(EmptyDb, NumDbs - 1, MapInsert(EmptyDb, 1, 0))) }

ReadOutcomes == {RdbErr} \cup Snapshots

\* db_load, lines 37-55: one database of the snapshot remapped to CacheEntry.
Remapped(data, id) ==
    [k \in DOMAIN data.databases[id] |->
        [ expiration |->
              IF id \in DOMAIN data.expirations
                 /\ k \in DOMAIN data.expirations[id]
              THEN Some(data.expirations[id][k])
              ELSE None,
          value |-> data.databases[id][k] ] ]

\* The Store a successful db_load of data leaves behind.
LoadedStore(data) == [id \in DOMAIN data.databases |-> Remapped(data, id)]

----------------------------------------------------------------------------
\* db_get's lookup with the expiry test written <= instead of <.
GetReadPhaseInclusive(c, db_id, key, t) ==
    IF db_id \in DOMAIN c /\ key \in DOMAIN c[db_id]
    THEN IF \E e \in c[db_id][key].expiration : e <= t
         THEN [result |-> None, should_remove |-> TRUE]
         ELSE [result |-> Some(c[db_id][key].value), should_remove |-> FALSE]
    ELSE [result |-> None, should_remove |-> FALSE]

\* db_get's phase 1 flagging a key that is not there for removal.
GetReadPhaseFlagsAbsent(c, db_id, key, t) ==
    IF db_id \in DOMAIN c
    THEN IF key \in DOMAIN c[db_id]
         THEN LET entry == c[db_id][key]
                  is_valid == ~(\E e \in entry.expiration : e < t)
              IN  IF is_valid
                  THEN [result |-> Some(entry.value), should_remove |-> FALSE]
                  ELSE [result |-> None, should_remove |-> TRUE]
         ELSE [result |-> None, should_remove |-> TRUE]
    ELSE [result |-> None, should_remove |-> FALSE]

(* db_get, phase 1 (lines 67-89): the lookup made under shared access. *)
GetReadPhase(c, db_id, key, t) ==
    IF db_id \in DOMAIN c
    THEN IF key \in DOMAIN c[db_id]
         THEN LET entry == c[db_id][key]
                  is_valid == ~(\E e \in entry.expiration : e < t)
              IN  IF is_valid
                  THEN [result |-> Some(entry.value), should_remove |-> FALSE]
                  ELSE [result |-> None, should_remove |-> TRUE]
         ELSE [result |-> None, should_remove |-> FALSE]
    ELSE [result |-> None, should_remove |-> FALSE]

\* db_set keeping the expiration of the entry it replaces when no timeout is given.
SetEffectMerge(c, db_id, key, value, timeout, t) ==
    IF db_id \in DOMAIN c
    THEN LET expiration ==
                 IF timeout = None /\ key \in DOMAIN c[db_id]
                 THEN c[db_id][key].expiration
                 ELSE {t + d : d \in timeout}
             entry == [expiration |-> expiration, value |-> DataString(value)]
         IN  [c EXCEPT ![db_id] = MapInsert(c[db_id], key, entry)]
    ELSE c

\* db_set inserting the entry into every namespace.
SetEffectAll(c, db_id, key, value, timeout, t) ==
    IF db_id \in DOMAIN c
    THEN LET entry == [expiration |-> {t + d : d \in timeout},
                       value |-> DataString(value)]
         IN  [id \in DOMAIN c |-> MapInsert(c[id], key, entry)]
    ELSE c

\* db_set, lines 102-109: the Store after the insert.
SetEffect(c, db_id, key, value, timeout, t) ==
    IF db_id \in DOMAIN c
    THEN LET expiration == {t + d : d \in timeout}
             entry == [expiration |-> expiration, value |-> DataString(value)]
         IN  [c EXCEPT ![db_id] = MapInsert(c[db_id], key, entry)]
    ELSE c

\* db_list_keys leaving out the entries whose expiration has passed.
ListKeysResultFiltered(c, db_id) ==
    IF db_id \in DOMAIN c
    THEN [ok |-> TRUE,
          keys |-> {k \in DOMAIN c[db_id] :
                       ~(\E e \in c[db_id][k].expiration : e < now)}]
    ELSE [ok |-> FALSE, keys |-> {}]

\* db_list_keys answering an empty list for a namespace that does not exist.
ListKeysResultLenient(c, db_id) ==
    IF db_id \in DOMAIN c
    THEN [ok |-> TRUE, keys |-> DOMAIN c[db_id]]
    ELSE [ok |-> TRUE, keys |-> {}]

\* db_list_keys, lines 116-120.
ListKeysResult(c, db_id) ==
    IF db_id \in DOMAIN c
    THEN [ok |-> TRUE, keys |-> DOMAIN c[db_id]]
    ELSE [ok |-> FALSE, keys |-> {}]

NoLocal == [db |-> 0, key |-> 0, data |-> RdbErr, todo |-> {}, pre |-> EmptyDb]

NoLast == [op |-> "none", db |-> 0, key |-> 0, value |-> 0,
           timeout |-> None, at |-> 0, result |-> None, outcome |-> "ok"]

Done(op, p, db, key, value, timeout, result, outcome) ==
    [op |-> op, db |-> db, key |-> key, value |-> value,
     timeout |-> timeout, at |-> now, result |-> result, outcome |-> outcome]

LockFree == lockWriter = 0 /\ lockReaders = {}

InitStore ==
    /\ cache = InitCache
    /\ now = 0
    /\ lockWriter = 0
    /\ lockReaders = {}
    /\ pc = [p \in Tasks |-> "idle"]
    /\ local = [p \in Tasks |-> NoLocal]
    /\ last = NoLast

\* The clock advances.
Tick ==
    /\ now < MaxTime
    /\ now' = now + 1
    /\ UNCHANGED <<cache, lockWriter, lockReaders, pc, local, last>>
    /\ UNCHANGED codecVars
    /\ UNCHANGED <<decoded, srvVars>>
    /\ UNCHANGED rdbVars

\* db_set: exclusive access, insert, release (no suspension point inside).
DbSet(p, db_id, key, value, timeout) ==
    /\ pc[p] = "idle"
    /\ LockFree
    /\ cache' = SetEffect(cache, db_id, key, value, timeout, now)
    /\ last' = Done("set", p, db_id, key, value, timeout, None, "ok")
    /\ UNCHANGED <<now, lockWriter, lockReaders, pc, local>>
    /\ UNCHANGED codecVars
    /\ UNCHANGED <<decoded, srvVars>>
    /\ UNCHANGED rdbVars

\* db_get: CACHE.read().await
DbGetAcquire(p, db_id, key) ==
    /\ pc[p] = "idle"
    /\ lockWriter = 0
    /\ lockReaders' = lockReaders \cup {p}
    /\ pc' = [pc EXCEPT ![p] = "get_read"]
    /\ local' = [local EXCEPT ![p] = [NoLocal EXCEPT !.db = db_id, !.key = key]]
    /\ UNCHANGED <<cache, now, lockWriter, last>>
    /\ UNCHANGED codecVars
    /\ UNCHANGED <<decoded, srvVars>>
    /\ UNCHANGED rdbVars

\* db_get: phase 1 and the release of shared access; returns unless flagged.
DbGetRead(p) ==
    /\ pc[p] = "get_read"
    /\ LET r == GetReadPhase(cache, local[p].db, local[p].key, now)
       IN  /\ lockReaders' = lockReaders \ {p}
           /\ IF r.should_remove
              THEN /\ pc' = [pc EXCEPT ![p] = "get_evict"]
                   /\ UNCHANGED <<local, last>>
              ELSE /\ pc' = [pc EXCEPT ![p] = "idle"]
                   /\ local' = [local EXCEPT ![p] = NoLocal]
                   /\ last' = Done("get", p, local[p].db, local[p].key, 0, None,
                                   r.result, "ok")
    /\ UNCHANGED <<cache, now, lockWriter>>
    /\ UNCHANGED codecVars
    /\ UNCHANGED <<decoded, srvVars>>
    /\ UNCHANGED rdbVars

\* db_get's phase 2 without the remove.
DbGetEvictKeeps(p) ==
    /\ pc[p] = "get_evict"
    /\ LockFree
    /\ cache' = cache
    /\ last' = Done("evict", p, local[p].db, local[p].key, 0, None, None,
                    IF local[p].db \in DOMAIN cache THEN "ok" ELSE "panic")
    /\ pc' = [pc EXCEPT ![p] = "idle"]
    /\ local' = [local EXCEPT ![p] = NoLocal]
    /\ UNCHANGED <<now, lockWriter, lockReaders>>
    /\ UNCHANGED codecVars
    /\ UNCHANGED <<decoded, srvVars>>
    /\ UNCHANGED rdbVars

\* db_get's phase 2 failing when the key is no longer there.
DbGetEvictStrict(p) ==
    /\ pc[p] = "get_evict"
    /\ LockFree
    /\ IF local[p].db \in DOMAIN cache /\ local[p].key \in DOMAIN cache[local[p].db]
       THEN /\ cache' = [cache EXCEPT ![local[p].db] = MapRemove(@, local[p].key)]
            /\ last' = Done("evict", p, local[p].db, local[p].key, 0, None, None, "ok")
       ELSE /\ cache' = cache
            /\ last' = Done("evict", p, local[p].db, local[p].key, 0, None, None,
                            "panic")
    /\ pc' = [pc EXCEPT ![p] = "idle"]
    /\ local' = [local EXCEPT ![p] = NoLocal]
    /\ UNCHANGED <<now, lockWriter, lockReaders>>
    /\ UNCHANGED codecVars
    /\ UNCHANGED <<decoded, srvVars>>
    /\ UNCHANGED rdbVars

\* db_get: phase 2 (lines 91-95): exclusive access, unwrap, remove, return None.
DbGetEvict(p) ==
    /\ pc[p] = "get_evict"
    /\ LockFree
    /\ IF local[p].db \in DOMAIN cache
       THEN /\ cache' = [cache EXCEPT ![local[p].db] = MapRemove(@, local[p].key)]
            /\ last' = Done("evict", p, local[p].db, local[p].key, 0, None, None, "ok")
       ELSE /\ cache' = cache
            /\ last' = Done("evict", p, local[p].db, local[p].key, 0, None, None,
                            "panic")
    /\ pc' = [pc EXCEPT ![p] = "idle"]
    /\ local' = [local EXCEPT ![p] = NoLocal]
    /\ UNCHANGED <<now, lockWriter, lockReaders>>
    /\ UNCHANGED codecVars
    /\ UNCHANGED <<decoded, srvVars>>
    /\ UNCHANGED rdbVars

\* db_list_keys: CACHE.read().await
DbListKeysAcquire(p, db_id) ==
    /\ pc[p] = "idle"
    /\ lockWriter = 0
    /\ lockReaders' = lockReaders \cup {p}
    /\ pc' = [pc EXCEPT ![p] = "keys_read"]
    /\ local' = [local EXCEPT ![p] = [NoLocal EXCEPT !.db = db_id]]
    /\ UNCHANGED <<cache, now, lockWriter, last>>
    /\ UNCHANGED codecVars
    /\ UNCHANGED <<decoded, srvVars>>
    /\ UNCHANGED rdbVars

\* db_list_keys: collect the keys, release, return.
DbListKeysRead(p) ==
    /\ pc[p] = "keys_read"
    /\ LET r == ListKeysResult(cache, local[p].db)
       IN  last' = Done("keys", p, local[p].db, 0, 0, None, r.keys,
                        IF r.ok THEN "ok" ELSE "err")
    /\ lockReaders' = lockReaders \ {p}
    /\ pc' = [pc EXCEPT ![p] = "idle"]
    /\ local' = [local EXCEPT ![p] = NoLocal]
    /\ UNCHANGED <<cache, now, lockWriter>>
    /\ UNCHANGED codecVars
    /\ UNCHANGED <<decoded, srvVars>>
    /\ UNCHANGED rdbVars

\* db_load clearing under a guard that is dropped right after the clear.
DbLoadClearThenUnlock(p) ==
    /\ pc[p] = "idle"
    /\ LockFree
    /\ lockWriter' = 0
    /\ cache' = EmptyDb
    /\ pc' = [pc EXCEPT ![p] = "load_read"]
    /\ local' = [local EXCEPT ![p] = [NoLocal EXCEPT !.pre = cache]]
    /\ last' = Done("clear", p, 0, 0, 0, None, None, "ok")
    /\ UNCHANGED <<now, lockReaders>>
    /\ UNCHANGED codecVars
    /\ UNCHANGED <<decoded, srvVars>>
    /\ UNCHANGED rdbVars

\* db_load, lines 25-26: exclusive access, then cache.clear().
DbLoadClear(p) ==
    /\ pc[p] = "idle"
    /\ LockFree
    /\ lockWriter' = p
    /\ cache' = EmptyDb
    /\ pc' = [pc EXCEPT ![p] = "load_read"]
    /\ local' = [local EXCEPT ![p] = [NoLocal EXCEPT !.pre = cache]]
    /\ last' = Done("clear", p, 0, 0, 0, None, None, "ok")
    /\ UNCHANGED <<now, lockReaders>>
    /\ UNCHANGED codecVars
    /\ UNCHANGED <<decoded, srvVars>>
    /\ UNCHANGED rdbVars

\* db_load, lines 28-34: RdbReader::read(db_file).await; an error returns Ok(()).
DbLoadRead(p, outcome) ==
    /\ pc[p] = "load_read"
    /\ IF outcome.ok
       THEN /\ pc' = [pc EXCEPT ![p] = "load_insert"]
            /\ local' = [local EXCEPT ![p] =
                            [local[p] EXCEPT !.data = outcome,
                                            !.todo = DOMAIN outcome.databases]]
            /\ UNCHANGED <<lockWriter, last>>
       ELSE /\ pc' = [pc EXCEPT ![p] = "idle"]
            /\ local' = [local EXCEPT ![p] = NoLocal]
            /\ lockWriter' = IF lockWriter = p THEN 0 ELSE lockWriter
            /\ last' = Done("load", p, 0, 0, 0, None, None, "err")
    /\ UNCHANGED <<cache, now, lockReaders>>
    /\ UNCHANGED codecVars
    /\ UNCHANGED <<decoded, srvVars>>
    /\ UNCHANGED rdbVars

\* db_load, lines 36-57: one iteration of the loop over data.databases.
DbLoadInsert(p, id) ==
    /\ pc[p] = "load_insert"
    /\ id \in local[p].todo
    /\ cache' = MapInsert(cache, id, Remapped(local[p].data, id))
    /\ local' = [local EXCEPT ![p].todo = @ \ {id}]
    /\ UNCHANGED <<now, lockWriter, lockReaders, pc, last>>
    /\ UNCHANGED codecVars
    /\ UNCHANGED <<decoded, srvVars>>
    /\ UNCHANGED rdbVars

\* db_load, line 59: the loop is over; Ok(()) and the guard is dropped.
DbLoadReturn(p) ==
    /\ pc[p] = "load_insert"
    /\ local[p].todo = {}
    /\ lockWriter' = IF lockWriter = p THEN 0 ELSE lockWriter
    /\ last' = [Done("load", p, 0, 0, 0, None, None, "ok") EXCEPT
                   !.result = {local[p].data}]
    /\ pc' = [pc EXCEPT ![p] = "idle"]
    /\ local' = [local EXCEPT ![p] = NoLocal]
    /\ UNCHANGED <<cache, now, lockReaders>>
    /\ UNCHANGED codecVars
    /\ UNCHANGED <<decoded, srvVars>>
    /\ UNCHANGED rdbVars

Next ==
    \/ Tick
    \/ \E p \in Tasks, db_id \in InputDbs, key \in Keys, value \in Vals,
          timeout \in Timeouts : DbSet(p, db_id, key, value, timeout)
    \/ \E p \in Tasks, db_id \in InputDbs, key \in Keys : DbGetAcquire(p, db_id, key)
    \/ \E p \in Tasks : DbGetRead(p)
    \/ \E p \in Tasks : DbGetEvict(p)
    \/ \E p \in Tasks, db_id \in InputDbs : DbListKeysAcquire(p, db_id)
    \/ \E p \in Tasks : DbListKeysRead(p)
    \/ \E p \in Tasks : DbLoadClear(p)
    \/ \E p \in Tasks, outcome \in ReadOutcomes : DbLoadRead(p, outcome)
    \/ \E p \in Tasks, id \in DbIds \cup {NumDbs} : DbLoadInsert(p, id)
    \/ \E p \in Tasks : DbLoadReturn(p)

InitCodecIdle ==
    /\ msg = <<>>
    /\ stream = <<>>
    /\ read_buffer = <<>>
    /\ write_index = 0
    /\ parsed = <<>>
    /\ cstate = "off"

\* RdbReader::read before any byte is read.
NoRdbData == [current_database |-> None, metadata |-> EmptyDb,
              databases |-> EmptyDb, err |-> "none"]

InitRdbIdle ==
    /\ file = [exists |-> FALSE, bytes |-> <<>>]
    /\ rpos = 0
    /\ rstate = "off"
    /\ rdata = NoRdbData

\* No length read has been made on its own.
InitDecodeIdle ==
    decoded = [kind |-> "unset", pos |-> 0, value |-> <<>>, err |-> "none"]

\* RedisClientConnection::new, lines 64-71, for a connection not yet accepted.
NoCmd == [cmd |-> "none", id |-> 0, key |-> 0, value |-> 0]

NoConn == [status |-> "none", selected_db |-> 0, request |-> NoCmd]

InitSrvIdle ==
    /\ conn = [p \in Tasks |-> NoConn]
    /\ listening = FALSE

Init == InitStore /\ InitCodecIdle /\ InitRdbIdle /\ InitDecodeIdle /\ InitSrvIdle

Spec == Init /\ [][Next]_vars

----------------------------------------------------------------------------
(* The frame codec (client.rs).  Bytes are numbers 0..255. *)

BufLen == 512      \* read_buffer: [u8; 512]
CR == 13           \* b'\r'
LF == 10           \* b'\n'
Star == 42         \* b'*'
Dollar == 36       \* b'$'
PlusSign == 43     \* '+', accepted by i32::from_str
MinusSign == 45    \* '-', accepted by i32::from_str
Digit0 == 48       \* '0'
I32Digits == 10    \* decimal digits of i32::MAX
Utf8Limit == 128   \* bytes below it are one-byte UTF-8 sequences

(* Bounds of the messages *)

MaxPayload == 2    \* payloads h, hh, ... up to this length
MaxElems == 2      \* elements of an array

\* ResponseType
BulkString(bytes) == [type |-> "BulkString", bytes |-> bytes, elements |-> <<>>]
Array(elements) == [type |-> "Array", bytes |-> <<>>, elements |-> elements]
NoRequest == [type |-> "None", bytes |-> <<>>, elements |-> <<>>]

\* Result<Option<RespParseResult>, RespProtocolError>, or a panic.
ParseNone == [kind |-> "None", request |-> NoRequest, consumed |-> 0,
              err |-> "", text |-> <<>>]
ParseSome(request, consumed) ==
    [kind |-> "Some", request |-> request, consumed |-> consumed,
     err |-> "", text |-> <<>>]
ParseErr(err, text) ==
    [kind |-> "Err", request |-> NoRequest, consumed |-> 0,
     err |-> err, text |-> text]
ParsePanic == [kind |-> "Panic", request |-> NoRequest, consumed |-> 0,
               err |-> "", text |-> <<>>]

\* &buffer[from..to] and &buffer[from..] for ranges that are in bounds.
Slice(buffer, from, to) == SubSeq(buffer, from + 1, to)
SliceFrom(buffer, from) == SubSeq(buffer, from + 1, Len(buffer))

\* usize::to_string
RECURSIVE Decimal(_)
Decimal(n) ==
    IF n < 10 THEN <<Digit0 + n>> ELSE Append(Decimal(n \div 10), Digit0 + (n % 10))

\* String::from_utf8_lossy for bytes that are ASCII or 0xFF: every 0xFF is an
\* invalid sequence and becomes U+FFFD, the three bytes EF BF BD.
RECURSIVE Utf8Lossy(_)
Utf8Lossy(bytes) ==
    IF bytes = <<>> THEN <<>>
    ELSE (IF Head(bytes) < Utf8Limit THEN <<Head(bytes)>> ELSE <<239, 191, 189>>)
         \o Utf8Lossy(Tail(bytes))

IsDigit(b) == b >= Digit0 /\ b <= Digit0 + 9

\* The digits with the leading zeros dropped.
RECURSIVE StripZeros(_)
StripZeros(digits) ==
    IF digits # <<>> /\ Head(digits) = Digit0 THEN StripZeros(Tail(digits)) ELSE digits

\* digits <= limit, for two digit strings of the same length.
RECURSIVE DigitsLeq(_, _)
DigitsLeq(digits, limit) ==
    IF digits = <<>> THEN TRUE
    ELSE IF Head(digits) # Head(limit) THEN Head(digits) < Head(limit)
    ELSE DigitsLeq(Tail(digits), Tail(limit))

\* The negated value of a digit string (i32 parsing accumulates in the sign's
\* direction, so that i32::MIN parses).
RECURSIVE NegValue(_, _)
NegValue(digits, acc) ==
    IF digits = <<>> THEN acc
    ELSE NegValue(Tail(digits), acc * 10 - (Head(digits) - Digit0))

\* str::parse::<i32>: an optional sign, at least one digit, nothing else, and
\* a value in -2^31 .. 2^31-1.
ParseI32(text) ==
    LET signed == text # <<>> /\ Head(text) \in {PlusSign, MinusSign}
        negative == signed /\ Head(text) = MinusSign
        digits == IF signed THEN Tail(text) ELSE text
        sig == StripZeros(digits)
        limit == IF negative THEN <<50, 49, 52, 55, 52, 56, 51, 54, 52, 56>>
                 ELSE <<50, 49, 52, 55, 52, 56, 51, 54, 52, 55>>
        fits == \/ Len(sig) < I32Digits
                \/ Len(sig) = I32Digits /\ DigitsLeq(sig, limit)
    IN  IF digits = <<>> \/ (\E i \in 1..Len(digits) : ~IsDigit(digits[i])) \/ ~fits
        THEN [ok |-> FALSE, value |-> 0]
        ELSE [ok |-> TRUE,
              value |-> IF negative THEN NegValue(sig, 0) ELSE 0 - NegValue(sig, 0)]

\* i32::to_string
I32ToString(n) == IF n < 0 THEN <<MinusSign>> \o Decimal(0 - n) ELSE Decimal(n)

\* get_next_part_end: the index of the LF of the first CRLF, if any.
get_next_part_end(buffer) ==
    LET hits == {i \in 0..(Len(buffer) - 1) :
                    /\ buffer[i + 1] = CR
                    /\ (i + 1) < Len(buffer)
                    /\ buffer[i + 2] = LF}
    IN  IF hits = {} THEN None
        ELSE Some((CHOOSE i \in hits : \A j \in hits : i <= j) + 1)

\* parse_bulk_string with the payload's trailing CRLF counted as consumed.
parse_bulk_string_crlf(string_part, remainder) ==
    LET length == ParseI32(string_part)
    IN  IF ~length.ok THEN ParseErr("BulkStringInvalidLength", Utf8Lossy(string_part))
        ELSE IF length.value < 0
        THEN ParseErr("BulkStringInvalidLength", I32ToString(length.value))
        ELSE IF length.value + 2 > Len(remainder) THEN ParsePanic
        ELSE ParseSome(BulkString(Slice(remainder, 0, length.value)), length.value + 2)

\* parse_bulk_string without the test for a negative length: the cast to usize
\* makes the slice end past the remainder.
parse_bulk_string_unsigned(string_part, remainder) ==
    LET length == ParseI32(string_part)
    IN  IF ~length.ok THEN ParseErr("BulkStringInvalidLength", Utf8Lossy(string_part))
        ELSE IF length.value < 0 \/ length.value > Len(remainder) THEN ParsePanic
        ELSE ParseSome(BulkString(Slice(remainder, 0, length.value)), length.value)

\* parse_bulk_string; remainder[..length] panics when the payload is not all
\* there yet.
parse_bulk_string(string_part, remainder) ==
    LET length == ParseI32(string_part)
    IN  IF ~length.ok THEN ParseErr("BulkStringInvalidLength", Utf8Lossy(string_part))
        ELSE IF length.value < 0
        THEN ParseErr("BulkStringInvalidLength", I32ToString(length.value))
        ELSE IF length.value > Len(remainder) THEN ParsePanic
        ELSE ParseSome(BulkString(Slice(remainder, 0, length.value)), length.value)

RECURSIVE parse_resp(_)
RECURSIVE parse_array_loop(_, _, _, _)

\* parse_array, lines 190-212: the loop with num_elements iterations left.
\* remainder[element.consumed + 2..] panics when the range starts past the end.
parse_array_loop(num_elements, remainder, consumed, elements) ==
    IF num_elements <= 0 THEN ParseSome(Array(elements), consumed)
    ELSE IF get_next_part_end(remainder) = None THEN ParseNone
    ELSE LET result == parse_resp(remainder)
         IN  IF result.kind # "Some" THEN result
             ELSE IF result.consumed + 2 > Len(remainder) THEN ParsePanic
             ELSE parse_array_loop(num_elements - 1,
                                   SliceFrom(remainder, result.consumed + 2),
                                   consumed + result.consumed + 2,
                                   Append(elements, result.request))

\* parse_array reading a count that is no integer as zero.
parse_array_lenient(array_part, remainder) ==
    LET num_elements == ParseI32(array_part)
    IN  IF ~num_elements.ok
        THEN parse_array_loop(0, remainder, 0, <<>>)
        ELSE parse_array_loop(num_elements.value, remainder, 0, <<>>)

\* parse_array rejecting a negative count.
parse_array_unsigned(array_part, remainder) ==
    LET num_elements == ParseI32(array_part)
    IN  IF ~num_elements.ok \/ num_elements.value < 0
        THEN ParseErr("ArrayNumElementsInvalidLength", Utf8Lossy(array_part))
        ELSE parse_array_loop(num_elements.value, remainder, 0, <<>>)

\* parse_array
parse_array(array_part, remainder) ==
    LET num_elements == ParseI32(array_part)
    IN  IF ~num_elements.ok
        THEN ParseErr("ArrayNumElementsInvalidLength", Utf8Lossy(array_part))
        ELSE parse_array_loop(num_elements.value, remainder, 0, <<>>)

\* parse_resp
parse_resp(buffer) ==
    LET part_end == get_next_part_end(buffer)
    IN  IF part_end = None THEN ParseNone
        ELSE LET pe == CHOOSE x \in part_end : TRUE
                 prefix_end == pe - 1
                 request ==
                     IF buffer[1] = Star
                     THEN parse_array(Slice(buffer, 1, prefix_end),
                                      SliceFrom(buffer, pe + 1))
                     ELSE IF buffer[1] = Dollar
                     THEN parse_bulk_string(Slice(buffer, 1, prefix_end),
                                            SliceFrom(buffer, pe + 1))
                     ELSE ParseErr("UnhandledRespDataType", <<buffer[1]>>)
             IN  IF pe = 0 THEN ParseNone
                 ELSE IF request.kind # "Some" THEN request
                 ELSE ParseSome(request.request, request.consumed + (prefix_end + 2))

\* write_bulk_string: the length of the bytes, then their lossy UTF-8 text.
write_bulk_string(string) ==
    <<Dollar>> \o Decimal(Len(string)) \o <<CR, LF>> \o Utf8Lossy(string) \o <<CR, LF>>

RECURSIVE write_resp(_)
RECURSIVE write_elements(_)

\* write_array, lines 481-483: the elements in order.
write_elements(elements) ==
    IF elements = <<>> THEN <<>>
    ELSE write_resp(Head(elements)) \o write_elements(Tail(elements))

\* write_array
write_array(elements) ==
    <<Star>> \o Decimal(Len(elements)) \o <<CR, LF>> \o write_elements(elements)

\* write_resp
write_resp(value) ==
    IF value.type = "Array" THEN write_array(value.elements)
    ELSE write_bulk_string(value.bytes)

\* slide_window(buffer, start, length): split_at_mut(start), then
\* to[..length].copy_from_slice(&from[..length]).  It panics unless both
\* halves hold length bytes.
SlidePanics(start, length) ==
    start > BufLen \/ length > start \/ length > BufLen - start

slide_window(buffer, start, length) ==
    SubSeq(buffer, 1, start) \o SubSeq(buffer, 1, length)
        \o SubSeq(buffer, start + length + 1, BufLen)

\* One iteration of the loop of read() in which the socket delivers chunk.
ReadIteration(buffer, index, chunk) ==
    IF index >= BufLen
    THEN [cstate |-> "failed", parsed |-> ParseErr("MessageTooBig", <<>>),
          read_buffer |-> buffer, write_index |-> index]
    ELSE LET bytes_read == Len(chunk)
             filled == SubSeq(buffer, 1, index) \o chunk
                           \o SubSeq(buffer, index + bytes_read + 1, BufLen)
             end_index == index + bytes_read
             request == parse_resp(SubSeq(filled, 1, end_index))
         IN  IF request.kind = "None"
             THEN [cstate |-> "reading", parsed |-> request,
                   read_buffer |-> filled, write_index |-> end_index]
             ELSE IF request.kind = "Err"
             THEN [cstate |-> "failed", parsed |-> request,
                   read_buffer |-> filled, write_index |-> end_index]
             ELSE IF request.kind = "Panic" \/ SlidePanics(request.consumed, end_index)
             THEN [cstate |-> "panicked", parsed |-> request,
                   read_buffer |-> filled, write_index |-> end_index]
             ELSE [cstate |-> "returned", parsed |-> request,
                   read_buffer |-> slide_window(filled, request.consumed, end_index),
                   write_index |-> end_index - request.consumed]

\* The values the peer sends: payloads "", "h", "hh", ..., CRLF, the byte
\* 0xFF, "ECHO" and "hey".
Echo == <<69, 67, 72, 79>>
Hey == <<104, 101, 121>>

Payloads ==
    {[i \in 1..n |-> 104] : n \in 0..MaxPayload} \cup {<<CR, LF>>, <<255>>, Echo, Hey}

BulkStrings == {BulkString(b) : b \in Payloads}

SeqsUpTo(S, n) == UNION {[1..k -> S] : k \in 0..n}

\* Arrays of bulk strings, the shape of a request.
FlatArrays == {Array(es) : es \in SeqsUpTo(BulkStrings, MaxElems)}

\* Arrays whose elements are bulk strings or arrays.
NestedArrays ==
    {Array(es) : es \in SeqsUpTo({BulkString(<<>>), BulkString(<<104>>), Array(<<>>),
                                  Array(<<BulkString(<<104>>)>>)}, MaxElems)}

Messages == BulkStrings \cup FlatArrays \cup NestedArrays

EmptyBuffer == [i \in 1..BufLen |-> 0]

CodecStart ==
    /\ msg \in Messages
    /\ stream = write_resp(msg)
    /\ read_buffer = EmptyBuffer
    /\ write_index = 0
    /\ parsed = [ParseNone EXCEPT !.kind = "unset"]
    /\ cstate = "reading"

\* read(), one iteration of its loop: the socket delivers the next n bytes.
SocketRead(n) ==
    /\ cstate = "reading"
    /\ (n <= Len(stream) /\ n <= BufLen - write_index) \/ write_index >= BufLen
    /\ LET r == ReadIteration(read_buffer, write_index, SubSeq(stream, 1, n))
       IN  /\ cstate' = r.cstate
           /\ parsed' = r.parsed
           /\ read_buffer' = r.read_buffer
           /\ write_index' = r.write_index
           /\ stream' = IF write_index >= BufLen THEN stream
                        ELSE SubSeq(stream, n + 1, Len(stream))
    /\ UNCHANGED <<msg, cache, now, lockWriter, lockReaders, pc, local, last>>
    /\ UNCHANGED rdbVars
    /\ UNCHANGED <<decoded, srvVars>>

NextCodec == \E n \in 1..Len(stream) : SocketRead(n)

InitCodec == InitStore /\ CodecStart /\ InitRdbIdle /\ InitDecodeIdle /\ InitSrvIdle

SpecCodec == InitCodec /\ [][NextCodec]_vars

----------------------------------------------------------------------------
(* The snapshot reader (persistence.rs).  A file is a sequence of bytes     *)
(* 0..255; a position is the number of bytes consumed so far.               *)

OpAux == 250        \* 0xFA
OpResize == 251     \* 0xFB
OpExpireMs == 252   \* 0xFC
OpExpireSec == 253  \* 0xFD
OpSelectDb == 254   \* 0xFE
OpEof == 255        \* 0xFF
MagicLen == 5       \* [0u8; 5]
VersionLen == 4     \* [0u8; 4]
ChecksumLen == 8    \* read_u64
TopBitsShift == 64  \* (length & 0b11000000) >> 6, and length & !mask
ByteRange == 256    \* one byte of a little-endian value

\* Result<T, RdbReadError> of a read at a position, or a panic.
RdbOkAt(pos, value) == [kind |-> "ok", pos |-> pos, value |-> value, err |-> "none"]
RdbFail(err) == [kind |-> "err", pos |-> 0, value |-> <<>>, err |-> err]
RdbPanicked(text) == [kind |-> "panic", pos |-> 0, value |-> <<>>, err |-> text]

\* read_exact, read_u8, read_u16_le, read_u32_le, read_u64(_le): the next n
\* bytes, or the I/O error UnexpectedEof when the file ends before them.
read_exact(f, pos, n) ==
    IF pos + n <= Len(f)
    THEN RdbOkAt(pos + n, SubSeq(f, pos + 1, pos + n))
    ELSE RdbFail("IoError")

\* The value of bytes read as a little-endian unsigned integer.
RECURSIVE LittleEndian(_)
LittleEndian(bytes) ==
    IF bytes = <<>> THEN 0
    ELSE Head(bytes) + ByteRange * LittleEndian(Tail(bytes))

\* The `?` operator: the error (or the panic) of r is returned, else F goes on.
Try(r, F(_)) == IF r.kind = "ok" THEN F(r) ELSE r

\* A length encoding that keeps the top two bits in the 14-bit length.
LengthEncodingUnmasked(length) ==
    CASE length \div TopBitsShift = 0 ->
            [encoding |-> "Remaining6Bits", length |-> length % TopBitsShift]
      [] length \div TopBitsShift = 1 ->
            [encoding |-> "RemainingAndNextByte", length |-> length]
      [] length \div TopBitsShift = 2 ->
            [encoding |-> "DiscardRemainingGetNext4Bytes", length |-> 0]
      [] OTHER ->
            [encoding |-> "SpecialFormat", length |-> length % TopBitsShift]

\* read_length_encoding, lines 156-166: the top two bits and the other six.
LengthEncoding(length) ==
    CASE length \div TopBitsShift = 0 ->
            [encoding |-> "Remaining6Bits", length |-> length % TopBitsShift]
      [] length \div TopBitsShift = 1 ->
            [encoding |-> "RemainingAndNextByte", length |-> length % TopBitsShift]
      [] length \div TopBitsShift = 2 ->
            [encoding |-> "DiscardRemainingGetNext4Bytes", length |-> 0]
      [] OTHER ->
            [encoding |-> "SpecialFormat", length |-> length % TopBitsShift]

\* read_length_encoding, lines 154-168.
read_length_encoding(f, pos) ==
    Try(read_exact(f, pos, 1),
        LAMBDA r : RdbOkAt(r.pos, LengthEncoding(r.value[1])))

\* interpret_length_encoding, lines 170-179.
interpret_length_encoding(f, pos, length_encoding, length) ==
    CASE length_encoding = "Remaining6Bits" -> RdbOkAt(pos, length)
      [] length_encoding = "DiscardRemainingGetNext4Bytes" ->
            Try(read_exact(f, pos, 4),
                LAMBDA r : RdbOkAt(r.pos, LittleEndian(r.value)))
      [] length_encoding = "RemainingAndNextByte" ->
            Try(read_exact(f, pos, 1),
                LAMBDA r : RdbOkAt(r.pos, length * ByteRange + r.value[1]))
      [] OTHER -> RdbFail("SpecialFormatInvalidIntEncoded")

\* read_length_encoded_int, lines 192-197.
read_length_encoded_int(f, pos) ==
    Try(read_length_encoding(f, pos),
        LAMBDA e : interpret_length_encoding(f, e.pos, e.value.encoding,
                                             e.value.length))

\* read_string_encoded, lines 202-210: the special format, an integer read
\* from 1, 2 or 4 bytes and rendered in base 10.
read_special_format(f, pos, length) ==
    CASE length = 0 ->
            Try(read_exact(f, pos, 1),
                LAMBDA r : RdbOkAt(r.pos, Decimal(LittleEndian(r.value))))
      [] length = 1 ->
            Try(read_exact(f, pos, 2),
                LAMBDA r : RdbOkAt(r.pos, Decimal(LittleEndian(r.value))))
      [] length = 2 ->
            Try(read_exact(f, pos, 4),
                LAMBDA r : RdbOkAt(r.pos, Decimal(LittleEndian(r.value))))
      [] length = 3 -> RdbPanicked("Compressed string not implemented")
      [] OTHER -> RdbPanicked("Invalid SpecialFormat for string encoding!")

\* read_string_encoded, lines 199-219.
read_string_encoded(f, pos) ==
    Try(read_length_encoding(f, pos),
        LAMBDA e :
            IF e.value.encoding = "SpecialFormat"
            THEN read_special_format(f, e.pos, e.value.length)
            ELSE Try(interpret_length_encoding(f, e.pos, e.value.encoding,
                                               e.value.length),
                     LAMBDA n :
                         Try(read_exact(f, n.pos, n.value),
                             LAMBDA r : RdbOkAt(r.pos, Utf8Lossy(r.value)))))

\* read_value_type, lines 181-188.
read_value_type(f, pos, value_type) ==
    IF value_type = 0
    THEN Try(read_string_encoded(f, pos),
             LAMBDA s : RdbOkAt(s.pos, DataString(s.value)))
    ELSE RdbPanicked("DataType isn't handled yet!")

\* read_key_value, lines 232-238: the type given, or read from the file.
read_known_type(f, pos, known_type) ==
    IF known_type # None
    THEN RdbOkAt(pos, <<CHOOSE b \in known_type : TRUE>>)
    ELSE read_exact(f, pos, 1)

\* read_key_value, lines 231-244; known_type is an Option<u8>.
read_key_value(f, pos, known_type) ==
    Try(read_known_type(f, pos, known_type),
        LAMBDA t :
            Try(read_string_encoded(f, t.pos),
                LAMBDA key :
                    Try(read_value_type(f, key.pos, t.value[1]),
                        LAMBDA value :
                            RdbOkAt(value.pos,
                                    [key |-> key.value, value |-> value.value]))))

\* read_expiry_timestamp, lines 221-229: a flag byte, then the timestamp.
read_expiry_timestamp(f, pos) ==
    Try(read_exact(f, pos, 1),
        LAMBDA flag :
            IF flag.value[1] = OpExpireSec THEN read_exact(f, flag.pos, 4)
            ELSE IF flag.value[1] = OpExpireMs THEN read_exact(f, flag.pos, 8)
            ELSE RdbFail("InvalidExpiryTimestampFlag"))

\* b"REDIS"
Magic == <<82, 69, 68, 73, 83>>

\* std::str::from_utf8 then u16::from_str on the 4 version bytes (lines 75-76):
\* ASCII digits, with an optional leading '+', parse; other ASCII text is a
\* ParseIntError; bytes that are not ASCII are not told apart further.
ParseVersion(bytes) ==
    IF \E i \in 1..Len(bytes) : bytes[i] >= Utf8Limit
    THEN RdbFail("Utf8Error or ParseIntError")
    ELSE IF \A i \in 1..Len(bytes) : IsDigit(bytes[i])
    THEN RdbOkAt(0, (bytes[4] - Digit0) + 10 * (bytes[3] - Digit0)
                      + 100 * (bytes[2] - Digit0) + 1000 * (bytes[1] - Digit0))
    ELSE IF bytes[1] = PlusSign /\ \A i \in 2..Len(bytes) : IsDigit(bytes[i])
    THEN RdbOkAt(0, (bytes[4] - Digit0) + 10 * (bytes[3] - Digit0)
                      + 100 * (bytes[2] - Digit0))
    ELSE RdbFail("ParseIntError")

\* One step of RdbReader::read as [rstate, rpos, rdata].
RdbStep(state, pos, data) == [rstate |-> state, rpos |-> pos, rdata |-> data]
RdbStepErr(pos, data, r) ==
    RdbStep(r.kind, pos, [data EXCEPT !.err = r.err])

\* The `?` operator inside RdbReader::read: an error or a panic ends the call.
TryStep(pos, data, r, F(_)) ==
    IF r.kind = "ok" THEN F(r) ELSE RdbStepErr(pos, data, r)

\* is_rdb_file, lines 139-145, and line 68.
CheckMagic(f) ==
    Try(read_exact(f, 0, MagicLen),
        LAMBDA buff : IF buff.value = Magic THEN buff
                      ELSE RdbFail("NotRedisDatabase"))

\* RdbReader::read, lines 63-81: open the file, check the magic, read the version.
ReadHeader(f) ==
    IF ~f.exists THEN RdbStepErr(0, NoRdbData, RdbFail("IoError"))
    ELSE TryStep(0, NoRdbData, CheckMagic(f.bytes),
           LAMBDA magic :
              TryStep(0, NoRdbData, read_exact(f.bytes, magic.pos, VersionLen),
                LAMBDA buff :
                   TryStep(0, NoRdbData, ParseVersion(buff.value),
                     LAMBDA rdb_version : RdbStep("loop", buff.pos, NoRdbData))))

\* current_database.is_none(), lines 97 and 117, ignored.
NoDatabaseSelectedIgnored(data) == FALSE

\* current_database.is_none(), lines 97 and 117.
NoDatabaseSelected(data) == data.current_database = None

\* The insert always made into database 0.
InsertRecordFirstDb(pos, data, kv) ==
    LET database == IF 0 \in DOMAIN data.databases
                    THEN data.databases[0] ELSE EmptyDb
    IN  RdbStep("loop", pos,
                [data EXCEPT !.databases =
                    MapInsert(@, 0, MapInsert(database, kv.key, kv.value))])

\* Lines 104-105 and 122-123: databases.entry(current_database.unwrap())
\* .or_insert_with(HashMap::new).insert(key, value).
InsertRecord(pos, data, kv) ==
    IF data.current_database = None
    THEN RdbStepErr(pos, data, RdbPanicked("called Option::unwrap() on a None value"))
    ELSE LET id == CHOOSE d \in data.current_database : TRUE
             database == IF id \in DOMAIN data.databases
                         THEN data.databases[id] ELSE EmptyDb
         IN  RdbStep("loop", pos,
                     [data EXCEPT !.databases =
                         MapInsert(@, id, MapInsert(database, kv.key, kv.value))])

\* Lines 85-90: auxiliary data.
ReadAux(f, pos, at, data) ==
    TryStep(pos, data, read_string_encoded(f, at),
      LAMBDA key :
         TryStep(pos, data, read_string_encoded(f, key.pos),
           LAMBDA value :
              RdbStep("loop", value.pos,
                      [data EXCEPT !.metadata =
                          MapInsert(@, key.value, value.value)])))

\* Lines 91-95: the table sizes, read and printed.
ReadResize(f, pos, at, data) ==
    TryStep(pos, data, read_length_encoded_int(f, at),
      LAMBDA db_table_size :
         TryStep(pos, data, read_length_encoded_int(f, db_table_size.pos),
           LAMBDA expiry_table_size : RdbStep("loop", expiry_table_size.pos, data)))

\* Lines 96-106: a key with an expiry.
ReadExpiringKey(f, pos, at, data) ==
    IF NoDatabaseSelected(data)
    THEN RdbStepErr(pos, data, RdbFail("AttemptReadKeyWithoutDatabaseSelected"))
    ELSE TryStep(pos, data, read_expiry_timestamp(f, at),
           LAMBDA expire_timestamp :
              TryStep(pos, data, read_key_value(f, expire_timestamp.pos, None),
                LAMBDA kv : InsertRecord(kv.pos, data, kv.value)))

\* Lines 107-110: select a database.
ReadSelectDb(f, pos, at, data) ==
    TryStep(pos, data, read_exact(f, at, 1),
      LAMBDA database :
         RdbStep("loop", database.pos,
                 [data EXCEPT !.current_database = Some(database.value[1])]))

\* Lines 111-115: the end of the file and its checksum.
ReadEof(f, pos, at, data) ==
    TryStep(pos, data, read_exact(f, at, ChecksumLen),
      LAMBDA crc64 : RdbStep("done", crc64.pos, data))

\* Lines 116-124: a key without expiry; the opcode is its value type.
ReadKey(f, pos, at, data, opcode) ==
    IF NoDatabaseSelected(data)
    THEN RdbStepErr(pos, data, RdbFail("AttemptReadKeyWithoutDatabaseSelected"))
    ELSE TryStep(pos, data, read_key_value(f, at, Some(opcode)),
           LAMBDA kv : InsertRecord(kv.pos, data, kv.value))

\* RdbReader::read, lines 83-125: one iteration of the loop.
ReadOpcode(f, pos, data) ==
    TryStep(pos, data, read_exact(f, pos, 1),
      LAMBDA op :
         CASE op.value[1] = OpAux -> ReadAux(f, pos, op.pos, data)
           [] op.value[1] = OpResize -> ReadResize(f, pos, op.pos, data)
           [] op.value[1] \in {OpExpireMs, OpExpireSec} ->
                 ReadExpiringKey(f, pos, op.pos, data)
           [] op.value[1] = OpSelectDb -> ReadSelectDb(f, pos, op.pos, data)
           [] op.value[1] = OpEof -> ReadEof(f, pos, op.pos, data)
           [] OTHER -> ReadKey(f, pos, op.pos, data, op.value[1]))

\* What RdbReader::read hands to db_load, lines 132-136 (Ok) or the error.  The
\* reader keeps no expiration (line 102), so the table db_load looks up is empty.
ReadReturned(state, data) ==
    IF state = "done" THEN RdbOk(data.databases, EmptyDb) ELSE RdbErr

----------------------------------------------------------------------------
(* The snapshot files db_load is given: the header, up to MaxRecords        *)
(* records and the end record, and files cut short or with a bad header.    *)

MaxRecords == 3    \* records between the header and the end of a file

Foo == <<102, 111, 111>>
Bar == <<98, 97, 114>>

\* The version text "0011".
Version0011 == <<48, 48, 49, 49>>

\* A string of fewer than 64 bytes, length-prefixed.
StringEncoded(s) == <<Len(s)>> \o s

\* The instants held in the files' expiry timestamps (little-endian bytes).
Millis(ts) == <<ts, 0, 0, 0, 0, 0, 0, 0>>
Seconds(ts) == <<ts, 0, 0, 0>>

SelectRecord(id) == <<OpSelectDb, id>>
KeyValueRecord(value_type, k, v) ==
    <<value_type>> \o StringEncoded(k) \o StringEncoded(v)
ExpireMsRecord(ts, k, v) == <<OpExpireMs>> \o Millis(ts) \o KeyValueRecord(0, k, v)
ExpireSecRecord(ts, k, v) == <<OpExpireSec>> \o Seconds(ts) \o KeyValueRecord(0, k, v)

\* Records as the format lays them out, and records the reader panics on.
Records ==
    { SelectRecord(0),
      SelectRecord(1),
      KeyValueRecord(0, Foo, Bar),
      KeyValueRecord(0, Bar, Foo),
      ExpireMsRecord(1, Foo, Bar),
      ExpireSecRecord(1, Bar, Foo),
      <<OpExpireMs>> \o ExpireMsRecord(1, Foo, Bar),
      <<OpAux>> \o StringEncoded(Foo) \o <<192, 7>>,
      <<OpResize, 1, 0>>,
      KeyValueRecord(1, Foo, Bar),
      <<0>> \o StringEncoded(Foo) \o <<196>> }

RECURSIVE Concat(_)
Concat(chunks) ==
    IF chunks = <<>> THEN <<>> ELSE Head(chunks) \o Concat(Tail(chunks))

EofRecord == <<OpEof, 0, 0, 0, 0, 0, 0, 0, 0>>

SnapshotFile(records) ==
    [exists |-> TRUE, bytes |-> Magic \o Version0011 \o Concat(records) \o EofRecord]

FooBarFile == SnapshotFile(<<SelectRecord(0), KeyValueRecord(0, Foo, Bar)>>)

Files ==
    { [exists |-> FALSE, bytes |-> <<>>],
      [exists |-> TRUE, bytes |-> <<>>],
      [exists |-> TRUE, bytes |-> <<82, 69, 68>>],
      [exists |-> TRUE, bytes |-> <<82, 69, 68, 73, 88>> \o Version0011 \o EofRecord],
      [exists |-> TRUE, bytes |-> Magic \o <<48, 48, 120, 49>> \o EofRecord],
      [exists |-> TRUE, bytes |-> Magic \o <<48, 48>>] }
    \cup { SnapshotFile(records) : records \in SeqsUpTo(Records, MaxRecords) }
    \cup { [exists |-> TRUE,
            bytes |-> Magic \o Version0011 \o Concat(records) \o tail] :
              records \in SeqsUpTo(Records, 1),
              tail \in {<<>>, <<OpEof, 0, 0>>, <<OpSelectDb>>, <<0, 3, 102>>} }

\* db_load is called once, by task 1, on the file.
RdbStart ==
    /\ file \in Files
    /\ rpos = 0
    /\ rstate = "start"
    /\ rdata = NoRdbData

\* db_load, lines 25-26.
RdbLoadStart ==
    /\ rstate = "start"
    /\ DbLoadClear(1)

\* RdbReader::read up to the loop.
RdbOpen ==
    /\ pc[1] = "load_read"
    /\ rstate = "start"
    /\ LET r == ReadHeader(file)
       IN  /\ rstate' = r.rstate
           /\ rpos' = r.rpos
           /\ rdata' = r.rdata
    /\ UNCHANGED <<file, cache, now, lockWriter, lockReaders, pc, local, last>>
    /\ UNCHANGED codecVars
    /\ UNCHANGED <<decoded, srvVars>>

\* RdbReader::read, one iteration of the loop.
RdbOpcode ==
    /\ pc[1] = "load_read"
    /\ rstate = "loop"
    /\ LET r == ReadOpcode(file.bytes, rpos, rdata)
       IN  /\ rstate' = r.rstate
           /\ rpos' = r.rpos
           /\ rdata' = r.rdata
    /\ UNCHANGED <<file, cache, now, lockWriter, lockReaders, pc, local, last>>
    /\ UNCHANGED codecVars
    /\ UNCHANGED <<decoded, srvVars>>

\* RdbReader::read returns to db_load, lines 28-34.
RdbReturn ==
    /\ rstate \in {"done", "err"}
    /\ DbLoadRead(1, ReadReturned(rstate, rdata))

\* A panic inside RdbReader::read unwinds db_load: the guard is dropped and the
\* call never returns.
DbLoadPanic(p) ==
    /\ pc[p] = "load_read"
    /\ rstate = "panic"
    /\ pc' = [pc EXCEPT ![p] = "panicked"]
    /\ lockWriter' = IF lockWriter = p THEN 0 ELSE lockWriter
    /\ last' = Done("load", p, 0, 0, 0, None, None, "panic")
    /\ UNCHANGED <<cache, now, lockReaders, local>>
    /\ UNCHANGED codecVars
    /\ UNCHANGED <<decoded, srvVars>>
    /\ UNCHANGED rdbVars

NextRdb ==
    \/ RdbLoadStart
    \/ RdbOpen
    \/ RdbOpcode
    \/ RdbReturn
    \/ DbLoadPanic(1)
    \/ \E id \in DOMAIN rdata.databases : DbLoadInsert(1, id)
    \/ DbLoadReturn(1)

InitRdb == InitStore /\ InitCodecIdle /\ RdbStart /\ InitDecodeIdle /\ InitSrvIdle

SpecRdb == InitRdb /\ [][NextRdb]_vars

----------------------------------------------------------------------------
(* read() and the loop of process() on raw byte streams: malformed prefixes, *)
(* streams longer than the buffer, and two requests sent back to back.       *)

MaxStream == 600     \* bytes in a stream that is longer than the buffer
BigPayload == 260    \* a payload longer than half the buffer

Abc == <<97, 98, 99>>
Crlf == <<CR, LF>>
Run(n) == [i \in 1..n |-> 104]

\* Length texts that are not a base-10 integer, or are negative.
BadLengthTexts ==
    {<<MinusSign, Digit0 + 1>>, Abc, <<>>, <<MinusSign, Digit0, Digit0 + 1>>,
     <<MinusSign>>, <<Digit0 + 1, 97>>, <<MinusSign, Digit0 + 1, Digit0 + 2>>}

\* Count texts that are not a base-10 integer.
BadCountTexts == {Abc, <<>>, <<Digit0 + 1, 97>>, <<MinusSign>>}

\* What the peer sends after the prefix line.
WireTails == {<<>>, Run(1), Crlf, Run(2) \o Crlf, <<Dollar>>}

\* What precedes a bulk string: nothing, or the prefix and the earlier element
\* of an array.
WireHeads ==
    {<<>>, <<Star, Digit0 + 1>> \o Crlf,
     <<Star, Digit0 + 2>> \o Crlf \o write_resp(BulkString(Run(1)))}

BadBulkStreams ==
    {head \o <<Dollar>> \o text \o Crlf \o tail :
        head \in WireHeads, text \in BadLengthTexts, tail \in WireTails}

BadTagStreams ==
    {<<tag>> \o rest \o Crlf \o tail :
        tag \in {PlusSign, MinusSign, CR, 0, 255}, rest \in {<<>>, Abc},
        tail \in WireTails}

BadCountStreams ==
    {<<Star>> \o text \o Crlf \o tail : text \in BadCountTexts, tail \in WireTails}

\* Array counts that are zero or negative.
NonPositiveCounts ==
    {<<Digit0>>, <<MinusSign, Digit0 + 1>>, <<MinusSign, Digit0>>, <<Digit0, Digit0>>,
     <<MinusSign, Digit0 + 1, Digit0 + 2>>}

EmptyArrayStreams ==
    {<<Star>> \o text \o Crlf \o tail : text \in NonPositiveCounts, tail \in WireTails}

\* Streams that fill the buffer: no CRLF at all (longer than the buffer, and
\* exactly as long), an array whose element never ends, and a bulk string whose
\* payload is longer than the buffer.
OversizeStreams ==
    {Run(MaxStream), Run(BufLen),
     <<Star, Digit0 + 1>> \o Crlf \o Run(MaxStream),
     <<Dollar>> \o Decimal(MaxStream) \o Crlf \o Run(MaxStream) \o Crlf}

\* Requests as clients send them, and one with a long argument.
Requests ==
    {Array(<<BulkString(Echo), BulkString(Hey)>>), Array(<<BulkString(Run(1))>>),
     BulkString(Hey)}

BigRequestStream ==
    <<Star, Digit0 + 1>> \o Crlf \o <<Dollar>> \o Decimal(BigPayload) \o Crlf
        \o Run(BigPayload) \o Crlf

\* One request, or two back to back.
RequestStreams ==
    {write_resp(m) : m \in Requests}
        \cup {write_resp(m) \o write_resp(n) : m, n \in Requests}
        \cup {BigRequestStream}

WireStreams ==
    BadBulkStreams \cup BadTagStreams \cup BadCountStreams \cup OversizeStreams
        \cup RequestStreams \cup EmptyArrayStreams

\* The byte counts a socket read returns: any count for a short stream, a few
\* for a long one.
ShortStream == 64
BigChunks == {1, 255, 256, 257, 511, 512}
WireChunks ==
    {n \in 1..Len(stream) : Len(stream) <= ShortStream \/ n \in BigChunks}
        \cup {1}

WireStart ==
    /\ msg = NoRequest
    /\ stream \in WireStreams
    /\ read_buffer = EmptyBuffer
    /\ write_index = 0
    /\ parsed = [ParseNone EXCEPT !.kind = "unset"]
    /\ cstate = "reading"

\* process(), lines 73-89: the request was handled and read() is called again.
ReadAgain ==
    /\ cstate = "returned"
    /\ cstate' = "reading"
    /\ UNCHANGED <<msg, stream, read_buffer, write_index, parsed>>
    /\ UNCHANGED <<storeVars, rdbVars, decoded, srvVars>>

\* An iteration of read() that treats a read of 0 bytes as an error.
ZeroReadCloses ==
    /\ cstate = "reading"
    /\ stream = <<>>
    /\ cstate' = "failed"
    /\ parsed' = ParseErr(IF write_index >= BufLen THEN "MessageTooBig"
                          ELSE "UnexpectedEof", <<>>)
    /\ UNCHANGED <<msg, stream, read_buffer, write_index>>
    /\ UNCHANGED <<storeVars, rdbVars, decoded, srvVars>>

\* read(), lines 97-105, with the peer's stream at its end: the full-buffer
\* test, then a read of 0 bytes and `continue`.
ZeroRead ==
    /\ cstate = "reading"
    /\ stream = <<>>
    /\ IF write_index >= BufLen
       THEN /\ cstate' = "failed"
            /\ parsed' = ParseErr("MessageTooBig", <<>>)
       ELSE UNCHANGED <<cstate, parsed>>
    /\ UNCHANGED <<msg, stream, read_buffer, write_index>>
    /\ UNCHANGED <<storeVars, rdbVars, decoded, srvVars>>

NextWire == (\E n \in WireChunks : SocketRead(n)) \/ ReadAgain \/ ZeroRead

InitWire == InitStore /\ WireStart /\ InitRdbIdle /\ InitDecodeIdle /\ InitSrvIdle

SpecWire == InitWire /\ [][NextWire]_vars

----------------------------------------------------------------------------
(* The length and string reads of the snapshot reader on their own: a first *)
(* byte, any of 0..255, and up to four bytes after it.                      *)

MaxFollow == 4      \* read_u32_le: the most bytes a length takes after its first

\* Values of the bytes after the first; with them a 4-byte value stays below 2^31.
FollowBytes == {2, 42, 127}

LengthInputs ==
    { <<b>> \o tail : b \in 0..(ByteRange - 1), tail \in SeqsUpTo(FollowBytes, MaxFollow) }

LengthStart ==
    /\ file \in {[exists |-> TRUE, bytes |-> bytes] : bytes \in LengthInputs}
    /\ rpos = 0
    /\ rstate \in {"length", "string"}
    /\ rdata = NoRdbData
    /\ decoded = [kind |-> "unset", pos |-> 0, value |-> <<>>, err |-> "none"]

\* read_length_encoded_int at the start of the bytes.
DecodeLength ==
    /\ rstate = "length"
    /\ decoded' = read_length_encoded_int(file.bytes, rpos)
    /\ rstate' = "length_read"
    /\ UNCHANGED <<file, rpos, rdata>>
    /\ UNCHANGED <<storeVars, codecVars, srvVars>>

\* read_string_encoded at the start of the bytes.
DecodeString ==
    /\ rstate = "string"
    /\ decoded' = read_string_encoded(file.bytes, rpos)
    /\ rstate' = "string_read"
    /\ UNCHANGED <<file, rpos, rdata>>
    /\ UNCHANGED <<storeVars, codecVars, srvVars>>

NextLength == DecodeLength \/ DecodeString

InitLength == InitStore /\ InitCodecIdle /\ LengthStart /\ InitSrvIdle

SpecLength == InitLength /\ [][NextLength]_vars

----------------------------------------------------------------------------
(* The accept loop of main and the connection tasks it spawns: each task    *)
(* runs process(), which reads a request and hands it to handle_command.    *)

\* The requests a connection reads: SELECT id, SET key value, GET key,
\* KEYS *, and a command name that Command::from_str rejects.
SelectCmd(id) == [NoCmd EXCEPT !.cmd = "select", !.id = id]
SetCmd(key, value) == [NoCmd EXCEPT !.cmd = "set", !.key = key, !.value = value]
GetCmd(key) == [NoCmd EXCEPT !.cmd = "get", !.key = key]
KeysCmd == [NoCmd EXCEPT !.cmd = "keys"]
UnknownCmd == [NoCmd EXCEPT !.cmd = "unknown"]

Commands ==
    {SelectCmd(id) : id \in InputDbs}
        \cup {SetCmd(key, value) : key \in Keys, value \in Vals}
        \cup {GetCmd(key) : key \in Keys}
        \cup {KeysCmd, UnknownCmd}

Running(p) == listening /\ conn[p].status = "running"

Served(p) == [conn EXCEPT ![p].request = NoCmd]
Ended(p) == [conn EXCEPT ![p].status = "ended", ![p].request = NoCmd]

ServerStart ==
    /\ conn = [p \in Tasks |-> NoConn]
    /\ listening = TRUE

\* main, lines 66-76: accept() returns a stream and a task is spawned for it.
Accept(p) ==
    /\ listening
    /\ conn[p].status = "none"
    /\ conn' = [conn EXCEPT ![p].status = "running", ![p].selected_db = 0]
    /\ UNCHANGED listening
    /\ UNCHANGED <<storeVars, codecVars, rdbVars, decoded>>

\* main, line 67: accept() fails, main returns and the process ends.
AcceptFails ==
    /\ listening
    /\ listening' = FALSE
    /\ conn' = [p \in Tasks |-> [NoConn EXCEPT !.status = "killed"]]
    /\ UNCHANGED <<storeVars, codecVars, rdbVars, decoded>>

\* process(): read() returns a request.
ReadRequest(p, request) ==
    /\ Running(p)
    /\ pc[p] = "idle"
    /\ conn[p].request = NoCmd
    /\ conn' = [conn EXCEPT ![p].request = request]
    /\ UNCHANGED listening
    /\ UNCHANGED <<storeVars, codecVars, rdbVars, decoded>>

\* A task that ends every connection when it ends.
FailAll(p) ==
    /\ Running(p)
    /\ pc[p] = "idle"
    /\ conn[p].request = NoCmd
    /\ conn' = [q \in Tasks |-> [conn[q] EXCEPT !.status = "ended"]]
    /\ UNCHANGED listening
    /\ UNCHANGED <<storeVars, codecVars, rdbVars, decoded>>

\* process(): read() or the write of the response returns an error (a
\* malformed frame, an I/O failure); the task prints it and ends.
Fail(p) ==
    /\ Running(p)
    /\ pc[p] = "idle"
    /\ conn[p].request = NoCmd
    /\ conn' = Ended(p)
    /\ UNCHANGED listening
    /\ UNCHANGED <<storeVars, codecVars, rdbVars, decoded>>

\* handle_command: Command::from_str fails and process() returns the error.
HandleUnknown(p) ==
    /\ Running(p)
    /\ conn[p].request.cmd = "unknown"
    /\ conn' = Ended(p)
    /\ UNCHANGED listening
    /\ UNCHANGED <<storeVars, codecVars, rdbVars, decoded>>

\* A SELECT that sets the database of every connection.
HandleSelectAll(p) ==
    /\ Running(p)
    /\ conn[p].request.cmd = "select"
    /\ conn' = [q \in Tasks |->
                   [conn[q] EXCEPT !.selected_db = conn[p].request.id,
                                   !.request = IF q = p THEN NoCmd ELSE @]]
    /\ UNCHANGED listening
    /\ UNCHANGED <<storeVars, codecVars, rdbVars, decoded>>

\* handle_command, Command::Select: the id is stored as it was parsed.
HandleSelect(p) ==
    /\ Running(p)
    /\ conn[p].request.cmd = "select"
    /\ conn' = [conn EXCEPT ![p].selected_db = conn[p].request.id,
                            ![p].request = NoCmd]
    /\ UNCHANGED listening
    /\ UNCHANGED <<storeVars, codecVars, rdbVars, decoded>>

\* handle_command, Command::Set without PX or EX: db_set on selected_db.
HandleSet(p) ==
    /\ Running(p)
    /\ conn[p].request.cmd = "set"
    /\ LockFree
    /\ cache' = SetEffect(cache, conn[p].selected_db, conn[p].request.key,
                          conn[p].request.value, None, now)
    /\ last' = Done("set", p, conn[p].selected_db, conn[p].request.key,
                    conn[p].request.value, None, None, "ok")
    /\ conn' = Served(p)
    /\ UNCHANGED <<now, lockWriter, lockReaders, pc, local, listening>>
    /\ UNCHANGED <<codecVars, rdbVars, decoded>>

\* handle_command, Command::Get: db_get on selected_db takes shared access.
HandleGet(p) ==
    /\ Running(p)
    /\ conn[p].request.cmd = "get"
    /\ pc[p] = "idle"
    /\ lockWriter = 0
    /\ lockReaders' = lockReaders \cup {p}
    /\ pc' = [pc EXCEPT ![p] = "get_read"]
    /\ local' = [local EXCEPT ![p] = [NoLocal EXCEPT !.db = conn[p].selected_db,
                                                     !.key = conn[p].request.key]]
    /\ conn' = Served(p)
    /\ UNCHANGED <<cache, now, lockWriter, last, listening>>
    /\ UNCHANGED <<codecVars, rdbVars, decoded>>

\* db_get's read phase for the GET of a connection.
GetReply(p) == Running(p) /\ DbGetRead(p)

\* handle_command, Command::Keys with the argument *: db_list_keys on
\* selected_db takes shared access.
HandleKeys(p) ==
    /\ Running(p)
    /\ conn[p].request.cmd = "keys"
    /\ pc[p] = "idle"
    /\ lockWriter = 0
    /\ lockReaders' = lockReaders \cup {p}
    /\ pc' = [pc EXCEPT ![p] = "keys_read"]
    /\ local' = [local EXCEPT ![p] = [NoLocal EXCEPT !.db = conn[p].selected_db]]
    /\ conn' = Served(p)
    /\ UNCHANGED <<cache, now, lockWriter, last, listening>>
    /\ UNCHANGED <<codecVars, rdbVars, decoded>>

\* db_list_keys returns: the keys are written, or its Err ends the task.
KeysReply(p) ==
    /\ Running(p)
    /\ pc[p] = "keys_read"
    /\ LET r == ListKeysResult(cache, local[p].db)
       IN  /\ last' = Done("keys", p, local[p].db, 0, 0, None, r.keys,
                           IF r.ok THEN "ok" ELSE "err")
           /\ conn' = IF r.ok THEN conn ELSE Ended(p)
    /\ lockReaders' = lockReaders \ {p}
    /\ pc' = [pc EXCEPT ![p] = "idle"]
    /\ local' = [local EXCEPT ![p] = NoLocal]
    /\ UNCHANGED <<cache, now, lockWriter, listening>>
    /\ UNCHANGED <<codecVars, rdbVars, decoded>>

NextServer ==
    \/ AcceptFails
    \/ \E p \in Tasks :
          \/ Accept(p)
          \/ \E request \in Commands : ReadRequest(p, request)
          \/ Fail(p)
          \/ HandleUnknown(p)
          \/ HandleSelect(p)
          \/ HandleSet(p)
          \/ HandleGet(p)
          \/ GetReply(p)
          \/ HandleKeys(p)
          \/ KeysReply(p)

InitServer == InitStore /\ InitCodecIdle /\ InitRdbIdle /\ InitDecodeIdle /\ ServerStart

SpecServer == InitServer /\ [][NextServer]_vars

----------------------------------------------------------------------------
(* Claims about the Store, checked under Spec *)

\* A db_load is between its clear and its return.
Loading == \E p \in Tasks : pc[p] \in {"load_read", "load_insert"}

\* What a db_get of the key of the latest db_set would return now.
GetAfterLastSet == GetReadPhase(cache, last.db, last.key, now).result

\* C1: from any reachable Store state, db_set(db, key, value, no TTL) on a
\* database index 0..15 followed immediately by db_get(db, key) returns
\* String(value).
C1_SetThenGet ==
    (last.op = "set" /\ last.timeout = None /\ last.db \in DbIds)
        => GetAfterLastSet = Some(DataString(last.value))

\* C2: an entry without expiration stays in the Store, unchanged, across every
\* step that is neither a db_set on its (db, key) nor a step of a db_load; so
\* every later db_get returns its value, also when the eviction phase of an
\* earlier db_get runs after the set.
C2_NoExpiryEntryStays ==
    [][\A db_id \in DbIds, key \in Keys :
          ( /\ db_id \in DOMAIN cache
            /\ key \in DOMAIN cache[db_id]
            /\ cache[db_id][key].expiration = None
            /\ ~(\E p \in Tasks, value \in Vals, timeout \in Timeouts :
                    DbSet(p, db_id, key, value, timeout))
            /\ lockWriter = 0
            /\ lockWriter' = 0 )
          => ( /\ db_id \in DOMAIN cache'
               /\ key \in DOMAIN cache'[db_id]
               /\ cache'[db_id][key] = cache[db_id][key] )]_vars

\* C3 as stated: after db_set with a TTL of zero, a db_get of the key issued
\* while the clock has not advanced returns None.
C3_TtlZeroExpiredAtOnce ==
    (last.op = "set" /\ last.timeout = Some(0) /\ now = last.at)
        => GetAfterLastSet = None

\* C3 amended: after db_set with a TTL of zero on an existing namespace, a
\* db_get of the key returns String(value) while the clock still reads the
\* instant of the set, and None once the clock has advanced past it.
C3_TtlZeroExpiresAfterTick ==
    (last.op = "set" /\ last.timeout = Some(0) /\ last.db \in DOMAIN cache)
        => GetAfterLastSet =
              IF now > last.at THEN None ELSE Some(DataString(last.value))

\* C3 witness: a db_set with TTL zero has just stored an entry in an existing
\* namespace and the clock has not advanced.
C3_Witness ==
    /\ last.op = "set"
    /\ last.timeout = Some(0)
    /\ last.db \in DOMAIN cache
    /\ now = last.at
    /\ cache[last.db][last.key].expiration = Some(now)

\* C4: whenever no db_load is in progress, the Store holds exactly the 16
\* namespaces 0..15.
C4_SixteenNamespaces == (~Loading) => DOMAIN cache = DbIds

\* Every key of the Store pre is in the Store c with the same entry.
KeptAll(pre, c) ==
    \A db_id \in DOMAIN pre : \A key \in DOMAIN pre[db_id] :
        /\ db_id \in DOMAIN c
        /\ key \in DOMAIN c[db_id]
        /\ c[db_id][key] = pre[db_id][key]

\* C5: when db_load returns because reading the snapshot failed, every key,
\* value and expiration present before the call is still present.
C5_FailedLoadKeepsStore ==
    [][\A p \in Tasks :
          (pc[p] = "load_read" /\ pc'[p] = "idle") => KeptAll(local[p].pre, cache')]_vars

\* C6: no db_get or db_list_keys holds shared access while a db_load is between
\* its clear and its return, and when a db_load of a snapshot has returned the
\* Store holds exactly the snapshot's databases, keys, values and expirations.
C6_LoadAtomic ==
    /\ lockReaders # {} => ~Loading
    /\ (last.op = "load" /\ last.outcome = "ok")
          => \A data \in last.result : cache = LoadedStore(data)

\* C6 witness: a reader holds shared access right after a db_load that
\* installed a snapshot with a key in it.
C6_Witness ==
    /\ lockReaders # {}
    /\ last.op = "load"
    /\ last.outcome = "ok"
    /\ \E db_id \in DOMAIN cache : DOMAIN cache[db_id] # {}

----------------------------------------------------------------------------
(* Claims about the frame codec, checked under SpecCodec.  Until read()     *)
(* returns, read_buffer[0..write_index] holds the bytes delivered so far, a *)
(* prefix of write_resp(msg), and parsed is parse_resp of that prefix.      *)

\* Every payload byte of the value is ASCII, so write_resp writes it verbatim.
RECURSIVE AsciiValue(_)
AsciiValue(value) ==
    /\ \A i \in 1..Len(value.bytes) : value.bytes[i] < Utf8Limit
    /\ \A i \in 1..Len(value.elements) : AsciiValue(value.elements[i])

\* An array whose elements are all bulk strings.
IsFlatArray(value) ==
    /\ value.type = "Array"
    /\ \A i \in 1..Len(value.elements) : value.elements[i].type = "BulkString"

\* parse_resp has been called on the bytes delivered so far.
Parsed == parsed.kind # "unset"

\* read() given the whole encoding of msg by a single socket read.
SingleRead == ReadIteration(EmptyBuffer, 0, write_resp(msg))

\* C7: on every proper prefix of the encoding of a bulk string or of an array
\* of bulk strings, parse_resp reports incomplete: no value, no error, no
\* other failure.
C7_ProperPrefixIncomplete ==
    ( /\ Parsed
      /\ AsciiValue(msg)
      /\ msg.type = "BulkString" \/ IsFlatArray(msg)
      /\ Len(stream) > 0 )
        => parsed.kind = "None"

\* C8: however the bytes of one encoded message are split over socket reads,
\* read() ends as it does when they all arrive in a single read: the same
\* decoded value and the same consumed count.
C8_SplitDeliveryInvariant ==
    (cstate # "reading" /\ AsciiValue(msg))
        => (cstate = SingleRead.cstate /\ parsed = SingleRead.parsed)

\* C9: parse_resp applied to all the bytes write_resp produced for a value
\* (bulk strings and arrays, nested or empty) returns that value.
C9_RoundTrip ==
    (Parsed /\ Len(stream) = 0)
        => (parsed.kind = "Some" /\ parsed.request = msg)

\* C10: for a complete message that is an array of n bulk strings, parse_resp
\* returns the array of those bulk strings in wire order and consumed is the
\* length of the whole encoding.
C10_ArrayOfBulkStrings ==
    (Parsed /\ Len(stream) = 0 /\ IsFlatArray(msg) /\ AsciiValue(msg))
        => parsed = ParseSome(msg, Len(write_resp(msg)))

\* C10 witness: *2 / ECHO / hey has been decoded, consuming 23 bytes.
C10_Witness ==
    /\ msg = Array(<<BulkString(Echo), BulkString(Hey)>>)
    /\ Len(stream) = 0
    /\ cstate = "returned"
    /\ parsed.request = msg
    /\ parsed.consumed = 23

----------------------------------------------------------------------------
(* Further claims about the Store, checked under Spec. *)

\* The entry of (db_id, key) exists and its expiration is earlier than t.
Expired(c, db_id, key, t) ==
    /\ db_id \in DOMAIN c
    /\ key \in DOMAIN c[db_id]
    /\ \E e \in c[db_id][key].expiration : e < t

\* C11: a db_get whose read phase finds an entry whose expiration has passed is
\* flagged for eviction; when its eviction phase has run it has returned None
\* and the key is gone from the namespace, and a db_list_keys of that database
\* that returns next (no db_set or db_load in between) does not include the key.
C11_ExpiredThenEvicted ==
    [][\A p \in Tasks :
          /\ (pc[p] = "get_read" /\ pc'[p] # "get_read"
                 /\ Expired(cache, local[p].db, local[p].key, now))
                => pc'[p] = "get_evict"
          /\ (pc[p] = "get_evict" /\ pc'[p] = "idle" /\ last'.outcome = "ok")
                => /\ last'.result = None
                   /\ local[p].key \notin DOMAIN cache'[local[p].db]
          /\ (pc[p] = "keys_read" /\ pc'[p] = "idle"
                 /\ last.op = "evict" /\ last.outcome = "ok"
                 /\ local[p].db = last.db)
                => /\ last'.outcome = "ok"
                   /\ last.key \notin last'.result]_vars

\* C11 witness: an eviction has run after the clock passed the entry's
\* expiration and a db_list_keys of that database is about to collect the keys.
C11_Witness ==
    /\ last.op = "evict"
    /\ last.outcome = "ok"
    /\ now > 0
    /\ \E p \in Tasks : pc[p] = "keys_read" /\ local[p].db = last.db

\* C12: right after db_set(db, key, value, ttl) on an existing namespace the
\* entry of (db, key) holds exactly the given value and the expiration now + ttl,
\* or none when no ttl was given, whatever entry was there before; without ttl
\* the read phase of db_get finds the value at every later instant.
C12_SetReplacesEntry ==
    (last.op = "set" /\ last.db \in DOMAIN cache)
        => /\ last.key \in DOMAIN cache[last.db]
           /\ cache[last.db][last.key] =
                 [expiration |-> {last.at + d : d \in last.timeout},
                  value |-> DataString(last.value)]
           /\ last.timeout = None
                 => \A t \in 0..(MaxTime + 1) :
                       GetReadPhase(cache, last.db, last.key, t) =
                          [result |-> Some(DataString(last.value)),
                           should_remove |-> FALSE]

\* C12 witness: a db_set without TTL has replaced an entry that a db_get saw
\* expired (that db_get is still before its eviction phase).
C12_Witness ==
    /\ last.op = "set"
    /\ last.timeout = None
    /\ last.db \in DOMAIN cache
    /\ cache[last.db][last.key].expiration = None
    /\ \E p \in Tasks :
          pc[p] = "get_evict" /\ local[p].db = last.db /\ local[p].key = last.key

\* C13: db_list_keys of an existing namespace returns exactly the keys present
\* in it, expired or not, and leaves the Store unchanged.
C13_ListKeysAllPresent ==
    [][\A p \in Tasks :
          (pc[p] = "keys_read" /\ pc'[p] = "idle" /\ local[p].db \in DOMAIN cache)
             => /\ last'.op = "keys"
                /\ last'.outcome = "ok"
                /\ last'.result = DOMAIN cache[local[p].db]
                /\ cache' = cache]_vars

\* C13 witness: db_list_keys has returned a key whose expiration has passed.
C13_Witness ==
    /\ last.op = "keys"
    /\ last.outcome = "ok"
    /\ \E k \in last.result : Expired(cache, last.db, k, now)

\* C14: for a database id that is not a namespace, db_get returns None and
\* db_set returns Ok, db_list_keys fails, and none of them changes the Store.
C14_UnknownNamespace ==
    [][/\ (last'.op = "set" /\ last'.db \notin DOMAIN cache)
             => (cache' = cache /\ last'.outcome = "ok")
       /\ \A p \in Tasks :
             /\ (pc[p] = "get_read" /\ pc'[p] # "get_read"
                    /\ local[p].db \notin DOMAIN cache)
                   => /\ pc'[p] = "idle"
                      /\ last'.op = "get"
                      /\ last'.result = None
                      /\ last'.outcome = "ok"
                      /\ cache' = cache
             /\ (pc[p] = "keys_read" /\ pc'[p] = "idle"
                    /\ local[p].db \notin DOMAIN cache)
                   => /\ last'.op = "keys"
                      /\ last'.outcome = "err"
                      /\ cache' = cache]_vars

\* C14 witness: db_list_keys of database 16 has failed while the 16 namespaces
\* exist and one holds a key.
C14_Witness ==
    /\ last.op = "keys"
    /\ last.outcome = "err"
    /\ last.db = NumDbs
    /\ DOMAIN cache = DbIds
    /\ \E db_id \in DbIds : DOMAIN cache[db_id] # {}

\* C15: a db_set on database i and the eviction of a db_get on database i leave
\* the set of namespaces and every database other than i unchanged.
C15_NamespacesIndependent ==
    [][last'.op \in {"set", "evict"}
          => /\ DOMAIN cache' = DOMAIN cache
             /\ \A j \in DOMAIN cache \ {last'.db} : cache'[j] = cache[j]]_vars

\* C15 witness: after a db_set the same key holds different values in two
\* databases.
C15_Witness ==
    /\ last.op = "set"
    /\ 0 \in DOMAIN cache
    /\ (NumDbs - 1) \in DOMAIN cache
    /\ 1 \in DOMAIN cache[0]
    /\ 1 \in DOMAIN cache[NumDbs - 1]
    /\ cache[0][1].value # cache[NumDbs - 1][1].value

----------------------------------------------------------------------------
(* Claims about the snapshot reader and db_load, checked under SpecRdb. *)

\* db_load has returned to its caller.
LoadReturned == last.op = "load" /\ pc[1] = "idle"

\* RdbReader::read takes a step of its loop.
OpcodeStep == rstate = "loop" /\ <<rstate', rpos'>> # <<rstate, rpos>>

\* The byte the next step of the loop reads as its opcode (0 at end of file).
NextOpcode == IF rpos < Len(file.bytes) THEN file.bytes[rpos + 1] ELSE 0

\* C16: db_load of a missing or malformed file never panics; it returns
\* normally and the Store then holds no keys.
C16_CorruptLoadReturns ==
    /\ rstate # "panic"
    /\ \A p \in Tasks : pc[p] # "panicked"
    /\ (LoadReturned /\ last.outcome = "err")
          => \A id \in DOMAIN cache : DOMAIN cache[id] = {}

\* A snapshot of one database holding one record that carries an expiry.
ExpiringFile(id, record) == SnapshotFile(<<SelectRecord(id), record>>)

\* C17: after db_load of a snapshot whose key record is preceded by an expiry
\* opcode the Store entry of the key carries that expiration, and db_get finds
\* it expired once that instant has passed.
C17_ExpiryLoaded ==
    \A id \in {0, 1} :
        /\ (LoadReturned /\ file = ExpiringFile(id, ExpireMsRecord(1, Foo, Bar)))
              => /\ id \in DOMAIN cache
                 /\ Foo \in DOMAIN cache[id]
                 /\ cache[id][Foo] = [expiration |-> Some(1), value |-> DataString(Bar)]
                 /\ GetReadPhase(cache, id, Foo, 2).result = None
        /\ (LoadReturned /\ file = ExpiringFile(id, ExpireSecRecord(1, Bar, Foo)))
              => /\ id \in DOMAIN cache
                 /\ Bar \in DOMAIN cache[id]
                 /\ cache[id][Bar] = [expiration |-> Some(1), value |-> DataString(Foo)]
                 /\ GetReadPhase(cache, id, Bar, 2).result = None

\* The key/value record that follows an expiry opcode at the reader's position
\* and its timestamp of n bytes.
RecordAfterTimestamp(n) == read_key_value(file.bytes, rpos + 1 + n, None)

\* C18: with a database selected, an expiry opcode followed by its timestamp
\* (8 bytes after 0xFC, 4 after 0xFD) and a key/value record is parsed: the
\* record is inserted and the next opcode is read right after the record.
C18_ExpiringRecordParsed ==
    [][\A n \in {4, 8} :
          (/\ OpcodeStep
           /\ rdata.current_database # None
           /\ NextOpcode = (IF n = 8 THEN OpExpireMs ELSE OpExpireSec)
           /\ RecordAfterTimestamp(n).kind = "ok")
             => /\ rstate' = "loop"
                /\ rpos' = RecordAfterTimestamp(n).pos
                /\ \A id \in rdata.current_database :
                      /\ id \in DOMAIN rdata'.databases
                      /\ RecordAfterTimestamp(n).value.key
                            \in DOMAIN rdata'.databases[id]]_vars

\* C19: a step of the loop changes no database but the one named by the most
\* recent 0xFE, which gains the record's key; 0xFE makes its next byte the
\* current database; 0xFF with 8 more bytes ends the read there, the data
\* unchanged; and the read of REDIS0011, FE 00, 00 "foo" "bar", FF and 8 zero
\* bytes ends with exactly database 0 holding foo -> String("bar").
C19_RecordsInSelectedDb ==
    [][/\ OpcodeStep
          => /\ \A id \in DOMAIN rdata'.databases :
                   \/ /\ id \in DOMAIN rdata.databases
                      /\ rdata'.databases[id] = rdata.databases[id]
                   \/ /\ id \in rdata.current_database
                      /\ NextOpcode \notin {OpAux, OpResize, OpSelectDb, OpEof}
                      /\ \E k \in DOMAIN rdata'.databases[id] :
                            \A other \in DOMAIN rdata'.databases[id] \ {k} :
                               /\ id \in DOMAIN rdata.databases
                               /\ other \in DOMAIN rdata.databases[id]
                               /\ rdata'.databases[id][other] =
                                     rdata.databases[id][other]
             /\ (NextOpcode = OpSelectDb /\ rstate' = "loop")
                   => rdata'.current_database = Some(file.bytes[rpos + 2])
             /\ (NextOpcode # OpSelectDb)
                   => rdata'.current_database = rdata.current_database
             /\ (NextOpcode = OpEof /\ rpos + 1 + ChecksumLen <= Len(file.bytes))
                   => /\ rstate' = "done"
                      /\ rpos' = rpos + 1 + ChecksumLen
                      /\ rdata' = rdata
             /\ (rstate' = "done") => NextOpcode = OpEof
       /\ (file' = FooBarFile /\ rstate' = "done")
             => rdata'.databases =
                   MapInsert(EmptyDb, 0, MapInsert(EmptyDb, Foo, DataString(Bar)))
       /\ (rstate = "done") => (rstate' = "done" /\ rpos' = rpos /\ rdata' = rdata)]_vars

\* C19 witness: db_load of that stream has returned and the Store holds foo.
C19_Witness ==
    /\ file = FooBarFile
    /\ rstate = "done"
    /\ LoadReturned
    /\ DOMAIN cache = {0}
    /\ cache[0] = MapInsert(EmptyDb, Foo,
                            [expiration |-> None, value |-> DataString(Bar)])

\* C20: a step of the loop that meets 0xFC, 0xFD or a value-type tag while no
\* database is selected fails with AttemptReadKeyWithoutDatabaseSelected, and
\* the read returns no data.
C20_KeyBeforeSelectFails ==
    [][(/\ OpcodeStep
        /\ rpos < Len(file.bytes)
        /\ rdata.current_database = None
        /\ NextOpcode \notin {OpAux, OpResize, OpSelectDb, OpEof})
          => /\ rstate' = "err"
             /\ rdata'.err = "AttemptReadKeyWithoutDatabaseSelected"
             /\ ReadReturned(rstate', rdata') = RdbErr]_vars

\* C20 witness: the read has failed so at an expiry opcode.
C20_Witness ==
    /\ rstate = "err"
    /\ rdata.err = "AttemptReadKeyWithoutDatabaseSelected"
    /\ NextOpcode = OpExpireMs

----------------------------------------------------------------------------
(* Claims about the length and string reads, checked under SpecLength. *)

\* The first byte of the input, its top two bits and its low six bits.
FirstByte == file.bytes[1]
TopBits == FirstByte \div 64
LowBits == FirstByte % 64

\* The bytes after the first, and the first n of them as a little-endian value.
Following == Tail(file.bytes)
FollowingValue(n) ==
    (IF n >= 1 THEN Following[1] ELSE 0)
    + (IF n >= 2 THEN Following[2] * 256 ELSE 0)
    + (IF n >= 3 THEN Following[3] * 65536 ELSE 0)
    + (IF n >= 4 THEN Following[4] * 16777216 ELSE 0)

\* text is the base-10 rendering of the value v: it parses to v and has no
\* sign and no leading zero.
RendersBase10(text, v) ==
    /\ text # <<>>
    /\ \A i \in 1..Len(text) : IsDigit(text[i])
    /\ (Len(text) > 1) => text[1] # Digit0
    /\ ParseI32(text) = [ok |-> TRUE, value |-> v]

\* C21: a length read gives, by the top two bits of its first byte b: 00 the low
\* six bits; 01 the low six bits * 256 + the next byte; 10 the next four bytes
\* as a little-endian value; 11 the error SpecialFormatInvalidIntEncoded.  A
\* string read with top bits 11 and selector 0, 1 or 2 gives the next 1, 2 or 4
\* bytes as a little-endian value rendered in base 10; with other top bits it
\* gives as many of the following bytes as the length that was read.
C21_LengthDecoding ==
    /\ (rstate = "length_read" /\ TopBits = 0)
          => decoded = RdbOkAt(1, LowBits)
    /\ (rstate = "length_read" /\ TopBits = 1 /\ Len(Following) >= 1)
          => decoded = RdbOkAt(2, LowBits * 256 + Following[1])
    /\ (rstate = "length_read" /\ TopBits = 2 /\ Len(Following) >= 4)
          => decoded = RdbOkAt(5, FollowingValue(4))
    /\ (rstate = "length_read" /\ TopBits = 3)
          => (decoded.kind = "err" /\ decoded.err = "SpecialFormatInvalidIntEncoded")
    /\ \A selector \in 0..2 :
          LET n == IF selector = 2 THEN 4 ELSE selector + 1
          IN  (rstate = "string_read" /\ TopBits = 3 /\ LowBits = selector
                  /\ Len(Following) >= n)
                 => /\ decoded.kind = "ok"
                    /\ decoded.pos = 1 + n
                    /\ RendersBase10(decoded.value, FollowingValue(n))
    /\ (rstate = "string_read" /\ TopBits = 0 /\ Len(Following) >= LowBits)
          => decoded = RdbOkAt(1 + LowBits, SubSeq(Following, 1, LowBits))
    /\ (rstate = "string_read" /\ TopBits = 1 /\ Len(Following) >= 1
            /\ Len(Following) >= 1 + LowBits * 256 + Following[1])
          => LET length == LowBits * 256 + Following[1]
             IN  decoded = RdbOkAt(2 + length, SubSeq(Following, 2, 1 + length))

\* C21 witness: the byte 0xC0 followed by 0x2A has been read as the text "42".
C21_Witness ==
    /\ rstate = "string_read"
    /\ file.bytes = <<192, 42>>
    /\ decoded = RdbOkAt(2, <<52, 50>>)

----------------------------------------------------------------------------
(* Claims about read() on raw byte streams, checked under SpecWire. *)

\* The bytes read() holds, and a buffer's prefix line.
Buffered == SubSeq(read_buffer, 1, write_index)
HasCrlf(buf) == \E i \in 1..(Len(buf) - 1) : buf[i] = CR /\ buf[i + 1] = LF
CrlfAt(buf) ==
    CHOOSE i \in 1..(Len(buf) - 1) :
        /\ buf[i] = CR /\ buf[i + 1] = LF
        /\ \A j \in 1..(i - 1) : ~(buf[j] = CR /\ buf[j + 1] = LF)
PrefixText(buf) == SubSeq(buf, 2, CrlfAt(buf) - 1)

\* An optional sign and one digit or more; a negative one has a digit not 0.
IsIntegerText(text) ==
    LET digits == IF text # <<>> /\ text[1] \in {PlusSign, MinusSign}
                  THEN Tail(text) ELSE text
    IN  digits # <<>> /\ \A i \in 1..Len(digits) : IsDigit(digits[i])
IsNegativeText(text) ==
    /\ IsIntegerText(text)
    /\ text[1] = MinusSign
    /\ \E i \in 2..Len(text) : text[i] # Digit0

\* The buffer holds head and then a whole bulk-string prefix line whose length
\* text is no integer or is negative.
BadBulkAfter(head) ==
    /\ Len(Buffered) > Len(head)
    /\ SubSeq(Buffered, 1, Len(head)) = head
    /\ LET rest == SubSeq(Buffered, Len(head) + 1, Len(Buffered))
       IN  /\ HasCrlf(rest)
           /\ rest[1] = Dollar
           /\ ~IsIntegerText(PrefixText(rest)) \/ IsNegativeText(PrefixText(rest))
BadLengthText(head) ==
    PrefixText(SubSeq(Buffered, Len(head) + 1, Len(Buffered)))

C23_BadPrefixFails ==
    /\ [](/\ (HasCrlf(Buffered) /\ Buffered[1] \notin {Star, Dollar})
                => /\ cstate = "failed"
                   /\ parsed = ParseErr("UnhandledRespDataType", <<Buffered[1]>>)
          /\ (HasCrlf(Buffered) /\ Buffered[1] = Star
                  /\ ~IsIntegerText(PrefixText(Buffered)))
                => /\ cstate = "failed"
                   /\ parsed = ParseErr("ArrayNumElementsInvalidLength",
                                        PrefixText(Buffered)))
    /\ [][cstate # "failed"]_vars

\* C23 witness: the prefix *abc has ended read() while bytes were still to come.
C23_Witness ==
    /\ cstate = "failed"
    /\ parsed = ParseErr("ArrayNumElementsInvalidLength", Abc)
    /\ stream # <<>>

\* C24 as stated: when the buffer holds 512 bytes and read() has ended without
\* returning a message, it has ended with MessageTooBig.
C24_FullBufferTooBig ==
    (write_index = BufLen /\ cstate \notin {"reading", "returned"})
        => (cstate = "failed" /\ parsed.err = "MessageTooBig")

\* The bytes the step's socket read delivered, and the bytes held after it.
Delivered == SubSeq(stream, 1, Len(stream) - Len(stream'))
Held == Buffered \o Delivered

\* C26 as stated: when parse_resp finds a request that consumed c of the w
\* bytes held, read() returns it with the bytes c..w moved to 0..w-c and
\* write_index = w - c.
C26_WindowSlides ==
    [][(cstate = "reading" /\ parsed'.kind = "Some")
          => LET c == parsed'.consumed
                 w == Len(Held)
             IN  /\ cstate' = "returned"
                 /\ write_index' = w - c
                 /\ SubSeq(read_buffer', 1, w - c) = SubSeq(Held, c + 1, w)]_vars

----------------------------------------------------------------------------
(* Claims about the two phases of db_get, checked under Spec. *)

\* The entry of (db_id, key) exists and has no expiration, or one that is not
\* strictly earlier than t.
Live(c, db_id, key, t) ==
    /\ db_id \in DOMAIN c
    /\ key \in DOMAIN c[db_id]
    /\ \A e \in c[db_id][key].expiration : e >= t

Absent(c, db_id, key) == db_id \notin DOMAIN c \/ key \notin DOMAIN c[db_id]

\* C27: the read phase of db_get returns the stored value exactly when the
\* entry exists and has no expiration or one not strictly earlier than now; when
\* it returns a value or finds no entry, db_get returns there, without the
\* exclusive phase, and the Store is as it was.
C27_ReadPhaseReturns ==
    [][\A p \in Tasks :
          (pc[p] = "get_read" /\ pc'[p] # "get_read")
             => LET db_id == local[p].db
                    key == local[p].key
                    returned == pc'[p] = "idle" /\ last'.op = "get"
                IN  /\ Live(cache, db_id, key, now)
                       <=> (returned /\ last'.result # None)
                    /\ Live(cache, db_id, key, now)
                       => last'.result = Some(cache[db_id][key].value)
                    /\ (Live(cache, db_id, key, now) \/ Absent(cache, db_id, key))
                       => (returned /\ last'.outcome = "ok")
                    /\ Absent(cache, db_id, key) => last'.result = None
                    /\ cache' = cache
                    /\ lockWriter' = lockWriter]_vars

\* C27 witness: db_get has returned the value of an entry whose expiration is
\* the present instant.
C27_Witness ==
    /\ last.op = "get"
    /\ last.result # None
    /\ last.at = now
    /\ last.db \in DOMAIN cache
    /\ last.key \in DOMAIN cache[last.db]
    /\ cache[last.db][last.key].expiration = Some(now)

\* C28: when two db_get calls are both flagged to evict the same key and the
\* namespace is there, each eviction completes without error and returns None,
\* and the key is absent afterwards; the one that finds the key already gone
\* leaves the Store as it was.
C28_BothEvictionsComplete ==
    [][\A p \in Tasks :
          (pc[p] = "get_evict" /\ pc'[p] # "get_evict"
              /\ local[p].db \in DOMAIN cache)
             => /\ pc'[p] = "idle"
                /\ last'.op = "evict"
                /\ last'.outcome = "ok"
                /\ last'.result = None
                /\ local[p].key \notin DOMAIN cache'[local[p].db]
                /\ (local[p].key \notin DOMAIN cache[local[p].db]) => cache' = cache
                /\ \A q \in Tasks \ {p} :
                      pc[q] = "get_evict" => (pc'[q] = "get_evict" /\ local'[q] = local[q])]_vars

\* C28 witness: one db_get has evicted the key and another, flagged for the
\* same key, is about to run its eviction on the namespace without the key.
C28_Witness ==
    /\ last.op = "evict"
    /\ last.outcome = "ok"
    /\ \E q \in Tasks :
          /\ pc[q] = "get_evict"
          /\ local[q].db = last.db
          /\ local[q].key = last.key
          /\ local[q].db \in DOMAIN cache
          /\ local[q].key \notin DOMAIN cache[local[q].db]

\* C30 as stated: no db_get fails, whatever db_set and db_load do between its
\* two phases.
C30_GetNeverFails == ~(last.op = "evict" /\ last.outcome = "panic")

----------------------------------------------------------------------------
(* Claims about the connection tasks, checked under SpecServer. *)

\* The step ends the task of connection p with an error.
EndsWithError(p) == conn[p].status = "running" /\ conn'[p].status = "ended"

\* C25: when a connection task ends with an error (from read(), from an
\* unknown command, from db_list_keys), every other connection is as it was,
\* the listener is still accepting, the Store's contents are unchanged, and
\* the task holds no lock afterwards.
C25_FailureIsolated ==
    [][\A p \in Tasks :
          EndsWithError(p)
             => /\ \A q \in Tasks \ {p} : conn'[q] = conn[q]
                /\ \A q \in Tasks \ {p} : pc'[q] = pc[q] /\ local'[q] = local[q]
                /\ listening /\ listening'
                /\ cache' = cache
                /\ lockWriter' = lockWriter
                /\ lockReaders' = lockReaders \ {p}
                /\ pc'[p] = "idle"]_vars

\* C25 witness: one connection has ended while another is running with a
\* database of its own selected and a key stored, and the listener accepts.
C25_Witness ==
    /\ listening
    /\ \E p, q \in Tasks :
          /\ conn[p].status = "ended"
          /\ conn[q].status = "running"
          /\ conn[q].selected_db = NumDbs - 1
          /\ cache[NumDbs - 1] # EmptyDb

\* The step serves the request of connection p.
Serves(p, cmd) ==
    /\ conn[p].status = "running"
    /\ conn[p].request.cmd = cmd
    /\ conn'[p].status = "running"
    /\ conn'[p].request = NoCmd

\* C29: a connection starts with database 0 selected; its selected database
\* changes only when its own SELECT is served, to the id given, whatever the
\* id; SET changes the Store in the connection's selected database only, GET
\* and KEYS read that database; and serving one connection leaves every other
\* connection's selected database as it was.
C29_SelectedDbPerConnection ==
    [][\A p \in Tasks :
          /\ (conn[p].status = "none" /\ conn'[p].status = "running")
                => conn'[p].selected_db = 0
          /\ (conn[p].status = "running" /\ conn'[p].status # "killed"
                  /\ conn'[p].selected_db # conn[p].selected_db)
                => Serves(p, "select")
          /\ Serves(p, "select")
                => /\ conn'[p].selected_db = conn[p].request.id
                   /\ cache' = cache
          /\ Serves(p, "set")
                => /\ DOMAIN cache' = DOMAIN cache
                   /\ \A d \in DOMAIN cache :
                         d # conn[p].selected_db => cache'[d] = cache[d]
                   /\ conn[p].selected_db \in DOMAIN cache
                         => /\ conn[p].request.key \in DOMAIN cache'[conn[p].selected_db]
                            /\ cache'[conn[p].selected_db][conn[p].request.key].value
                                  = DataString(conn[p].request.value)
                   /\ conn'[p].selected_db = conn[p].selected_db
          /\ (Serves(p, "get") \/ Serves(p, "keys"))
                => /\ local'[p].db = conn[p].selected_db
                   /\ cache' = cache
                   /\ conn'[p].selected_db = conn[p].selected_db
          /\ (conn[p].status = "running" /\ conn'[p] # conn[p]
                  /\ conn'[p].status # "killed")
                => \A q \in Tasks \ {p} : conn'[q] = conn[q]]_vars

\* C29 witness: two running connections have different databases selected,
\* one of them an id that is no namespace, and the other has stored a key in
\* its own database and in no other.
C29_Witness ==
    \E p, q \in Tasks :
        /\ conn[p].status = "running" /\ conn[q].status = "running"
        /\ conn[p].selected_db = NumDbs
        /\ conn[q].selected_db = NumDbs - 1
        /\ cache[NumDbs - 1] # EmptyDb
        /\ cache[0] = EmptyDb

\* C31 as stated: with the peer's stream at its end and read() still looking
\* for a frame, an iteration of read() neither returns nor fails and leaves
\* write_index and the buffer as they were.
C31_EofRetries ==
    [][(cstate = "reading" /\ stream = <<>>)
          => /\ cstate' = "reading"
             /\ write_index' = write_index
             /\ read_buffer' = read_buffer]_vars

\* C31 amended: the same while fewer than 512 bytes are buffered; with 512
\* bytes buffered the next iteration fails with MessageTooBig.
C31_EofRetriesBelowCapacity ==
    [][/\ (cstate = "reading" /\ stream = <<>> /\ write_index < BufLen)
             => /\ cstate' = "reading"
                /\ write_index' = write_index
                /\ read_buffer' = read_buffer
                /\ parsed' = parsed
       /\ (cstate = "reading" /\ stream = <<>> /\ write_index >= BufLen)
             => /\ cstate' = "failed"
                /\ parsed' = ParseErr("MessageTooBig", <<>>)]_vars

\* C31 witness: the stream is at its end with part of a frame buffered and
\* read() is still in its loop.
C31_Witness ==
    /\ cstate = "reading"
    /\ stream = <<>>
    /\ write_index > 0
    /\ write_index < BufLen
    /\ parsed.kind = "None"

\* C32: an array prefix whose count parses to zero or less decodes to the empty
\* Array and consumes the prefix line only, tag, count text and CRLF; no error
\* is raised for a negative count.
C32_NonPositiveCountEmptyArray ==
    [][(cstate = "reading" /\ write_index < BufLen
           /\ HasCrlf(Held) /\ Held[1] = Star
           /\ ParseI32(PrefixText(Held)).ok
           /\ ParseI32(PrefixText(Held)).value <= 0)
          => /\ parsed' = ParseSome(Array(<<>>), CrlfAt(Held) + 1)
             /\ cstate' # "failed"
             /\ (Len(Held) = CrlfAt(Held) + 1)
                   => (cstate' = "returned" /\ write_index' = 0)]_vars

\* C32 witness: read() has returned the empty Array for the five bytes *-1 CRLF.
C32_Witness ==
    /\ cstate = "returned"
    /\ parsed = ParseSome(Array(<<>>), 5)
    /\ SubSeq(read_buffer, 1, 5) = <<Star, MinusSign, Digit0 + 1, CR, LF>>
====
